---------------------------- MODULE Spec2Model ----------------------------
(***************************************************************************)
(* A model of the Mehl interpreter (src/interpreter/src): the byte-code    *)
(* fiber (vm/fiber.rs), the VM scheduler with its channels (vm/vm.rs), and *)
(* the compiler passes that produce the byte code (compiler/*.rs).         *)
(*                                                                         *)
(* Conventions.                                                            *)
(*  - Strings and symbols are sequences of bytes (what the byte code       *)
(*    stores); a String built at run time from a message literal of the    *)
(*    interpreter is [t |-> "String", text |-> "..."].                     *)
(*  - A Rust panic (unwrap on None, index out of range, panic!, a failed   *)
(*    assert) ends the process: the fiber's status becomes                 *)
(*    [t |-> "Aborted", why |-> ...], and nothing runs afterwards.         *)
(*  - Sequences are 1-based, so byte-code address a is byte_code[a + 1].   *)
(***************************************************************************)
EXTENDS Integers, Sequences, FiniteSets, TLC

(***************************************************************************)
(* Generic helpers.                                                        *)
(***************************************************************************)
Last(s) == s[Len(s)]

Front(s) == SubSeq(s, 1, Len(s) - 1)

Reverse(s) == [i \in 1..Len(s) |-> s[Len(s) + 1 - i]]

Range(s) == {s[i] : i \in 1..Len(s)}

RECURSIVE Concat(_)
Concat(ss) == IF ss = <<>> THEN <<>> ELSE Head(ss) \o Concat(Tail(ss))

\* A set of integers as an ascending sequence (Vec::sort).
RECURSIVE SortedSeq(_)
SortedSeq(S) ==
    IF S = {} THEN <<>>
    ELSE LET m == CHOOSE x \in S : \A y \in S : x <= y
         IN <<m>> \o SortedSeq(S \ {m})

\* The largest value the checker's integers hold; stands for every u64 that
\* is larger.
Huge == 2147483647 + 0

(***************************************************************************)
(* vm/utils.rs: Value.                                                     *)
(***************************************************************************)
IntV(n) == [t |-> "Int", n |-> n]

StringV(s) == [t |-> "String", s |-> s]

TextV(text) == [t |-> "String", text |-> text]

SymbolV(s) == [t |-> "Symbol", s |-> s]

ListV(items) == [t |-> "List", items |-> items]

MapV(entries) == [t |-> "Map", entries |-> entries]

ClosureV(captured, body) == [t |-> "Closure", captured |-> captured, body |-> body]

ChannelSendEndV(id) == [t |-> "ChannelSendEnd", id |-> id]

ChannelReceiveEndV(id) == [t |-> "ChannelReceiveEnd", id |-> id]

unit == SymbolV(<<>>)

(***************************************************************************)
(* compiler/primitives.rs: PrimitiveKind.  Symbols as ASCII bytes.         *)
(***************************************************************************)
SymAdd == <<97, 100, 100>>

SymGetItem == <<103, 101, 116, 45, 105, 116, 101, 109>>

SymGetAmbient == <<103, 101, 116, 45, 97, 109, 98, 105, 101, 110, 116>>

SymPanic == <<112, 97, 110, 105, 99>>

SymChannel == <<99, 104, 97, 110, 110, 101, 108>>

SymSend == <<115, 101, 110, 100>>

SymReceive == <<114, 101, 99, 101, 105, 118, 101>>

SymWrongUsage == <<119, 114, 111, 110, 103, 45, 117, 115, 97, 103, 101>>

\* PrimitiveKind::all(), in its order.
PrimitiveKind_all ==
    <<"Add", "GetItem", "GetAmbient", "Panic", "CreateChannel", "Send", "Receive">>

\* PrimitiveKind::parse: "None" when the symbol names no primitive.
PrimitiveKind_parse(symbol) ==
    CASE symbol = SymAdd -> "Add"
      [] symbol = SymGetItem -> "GetItem"
      [] symbol = SymGetAmbient -> "GetAmbient"
      [] symbol = SymPanic -> "Panic"
      [] symbol = SymChannel -> "CreateChannel"
      [] symbol = SymSend -> "Send"
      [] symbol = SymReceive -> "Receive"
      [] OTHER -> "None"

PrimitiveKind_is_pure(kind) == kind \in {"Add", "GetItem"}

(***************************************************************************)
(* compiler/byte_code.rs: Instruction, to_bytes and parse.                 *)
(* An instruction is [op, n, s, kind]: n the numeric operand, s the bytes  *)
(* of a string or symbol, kind the primitive kind ("None" for None).       *)
(***************************************************************************)
Instr(op, n, s, kind) == [op |-> op, n |-> n, s |-> s, kind |-> kind]

CreateInt(n) == Instr("CreateInt", n, <<>>, "None")

CreateString(s) == Instr("CreateString", 0, s, "None")

CreateSmallString(s) == Instr("CreateSmallString", 0, s, "None")

CreateSymbol(s) == Instr("CreateSymbol", 0, s, "None")

CreateMap(n) == Instr("CreateMap", n, <<>>, "None")

CreateList(n) == Instr("CreateList", n, <<>>, "None")

CreateClosure(n) == Instr("CreateClosure", n, <<>>, "None")

DupI(n) == Instr("Dup", n, <<>>, "None")

DupNear(n) == Instr("DupNear", n, <<>>, "None")

DropI(n) == Instr("Drop", n, <<>>, "None")

DropNear(n) == Instr("DropNear", n, <<>>, "None")

Pop == Instr("Pop", 0, <<>>, "None")

PopMultipleBelowTop(n) == Instr("PopMultipleBelowTop", n, <<>>, "None")

PushAddress(a) == Instr("PushAddress", a, <<>>, "None")

PushFromStack(n) == Instr("PushFromStack", n, <<>>, "None")

PushNearFromStack(n) == Instr("PushNearFromStack", n, <<>>, "None")

Jump(a) == Instr("Jump", a, <<>>, "None")

Call == Instr("Call", 0, <<>>, "None")

Return == Instr("Return", 0, <<>>, "None")

Primitive(kind) == Instr("Primitive", 0, <<>>, kind)

\* Bytes::U64: the eight little-endian bytes of n as u64 (a negative n is an
\* i64 cast to u64, two's complement).
U64(n) ==
    IF n >= 0
    THEN <<n % 256, (n \div 256) % 256, (n \div 65536) % 256,
           (n \div 16777216) % 256, 0, 0, 0, 0>>
    ELSE LET m == -n - 1
         IN <<255 - (m % 256), 255 - ((m \div 256) % 256),
              255 - ((m \div 65536) % 256), 255 - ((m \div 16777216) % 256),
              255, 255, 255, 255>>

\* Bytes::U8: `as u8` keeps the low byte.
U8(n) == <<n % 256>>

PositionOf(seq, x) == CHOOSE i \in 1..Len(seq) : seq[i] = x

\* Instruction::to_bytes.
to_bytes(i) ==
    CASE i.op = "CreateInt" -> U8(0) \o U64(i.n)
      [] i.op = "CreateString" -> U8(1) \o U64(Len(i.s)) \o i.s
      [] i.op = "CreateSmallString" -> U8(2) \o U8(Len(i.s)) \o i.s
      [] i.op = "CreateSymbol" -> U8(3) \o i.s \o U8(0)
      [] i.op = "CreateMap" -> U8(4) \o U64(i.n)
      [] i.op = "CreateList" -> U8(5) \o U64(i.n)
      [] i.op = "CreateClosure" -> U8(6) \o U64(i.n)
      [] i.op = "Dup" -> U8(10) \o U64(i.n)
      [] i.op = "DupNear" -> U8(11) \o U8(i.n)
      [] i.op = "Drop" -> U8(12) \o U64(i.n)
      [] i.op = "DropNear" -> U8(13) \o U8(i.n)
      [] i.op = "Pop" -> U8(20)
      [] i.op = "PopMultipleBelowTop" -> U8(21) \o U8(i.n)
      [] i.op = "PushAddress" -> U8(22) \o U64(i.n)
      [] i.op = "PushFromStack" -> U8(23) \o U64(i.n)
      [] i.op = "PushNearFromStack" -> U8(24) \o U8(i.n)
      [] i.op = "Jump" -> U8(30) \o U64(i.n)
      [] i.op = "Call" -> U8(31)
      [] i.op = "Return" -> U8(32)
      [] i.op = "Primitive" ->
            IF i.kind = "None" THEN U8(100)
            ELSE U8(101 + PositionOf(PrimitiveKind_all, i.kind) - 1)

\* The result of a parse that panicked (a read past the end, invalid UTF-8,
\* an unknown opcode).
ParsePanic == [ok |-> FALSE, instruction |-> Pop, consumed |-> 0]

Parsed(instruction, consumed) ==
    \* `num_bytes_consumed as u8`
    [ok |-> TRUE, instruction |-> instruction, consumed |-> consumed % 256]

\* Parser::get_u64 on the eight bytes from 1-based position p.
get_u64(bytes, p) ==
    IF bytes[p + 4] = 0 /\ bytes[p + 5] = 0 /\ bytes[p + 6] = 0
       /\ bytes[p + 7] = 0 /\ bytes[p + 3] < 128
    THEN bytes[p] + 256 * bytes[p + 1] + 65536 * bytes[p + 2]
         + 16777216 * bytes[p + 3]
    ELSE Huge

\* `get_u64() as i64`
get_i64(bytes, p) ==
    IF bytes[p + 4] = 255 /\ bytes[p + 5] = 255 /\ bytes[p + 6] = 255
       /\ bytes[p + 7] = 255 /\ bytes[p + 3] >= 128
    THEN -(1 + (255 - bytes[p]) + 256 * (255 - bytes[p + 1])
             + 65536 * (255 - bytes[p + 2]) + 16777216 * (255 - bytes[p + 3]))
    ELSE get_u64(bytes, p)

\* String::from_utf8 succeeds; the model's strings are ASCII.
ValidUtf8(s) == \A i \in 1..Len(s) : s[i] < 128

\* Instruction::parse on byte_code[ip..]: the instruction and the number of
\* bytes consumed.
parse(byte_code, ip) ==
    LET len == Len(byte_code)
        p == ip + 1
        has(k) == ip + k <= len
        WithU64(op) ==
            IF has(9) THEN Parsed(Instr(op, get_u64(byte_code, p + 1), <<>>, "None"), 9)
            ELSE ParsePanic
        WithU8(op) ==
            IF has(2) THEN Parsed(Instr(op, byte_code[p + 1], <<>>, "None"), 2)
            ELSE ParsePanic
    IN IF ~has(1) THEN ParsePanic
       ELSE LET opcode == byte_code[p]
            IN CASE opcode = 0 ->
                      IF has(9) THEN Parsed(CreateInt(get_i64(byte_code, p + 1)), 9)
                      ELSE ParsePanic
                 [] opcode = 1 ->
                      IF ~has(9) THEN ParsePanic
                      ELSE LET n == get_u64(byte_code, p + 1)
                           IN IF n = Huge \/ ~has(9 + n) THEN ParsePanic
                              ELSE LET s == SubSeq(byte_code, p + 9, p + 8 + n)
                                   IN IF ValidUtf8(s)
                                      THEN Parsed(CreateString(s), 9 + n)
                                      ELSE ParsePanic
                 [] opcode = 2 ->
                      IF ~has(2) THEN ParsePanic
                      ELSE LET n == byte_code[p + 1]
                           IN IF ~has(2 + n) THEN ParsePanic
                              ELSE LET s == SubSeq(byte_code, p + 2, p + 1 + n)
                                   IN IF ValidUtf8(s)
                                      THEN Parsed(CreateSmallString(s), 2 + n)
                                      ELSE ParsePanic
                 [] opcode = 3 ->
                      LET zeros == {q \in (p + 1)..len : byte_code[q] = 0}
                      IN IF zeros = {} THEN ParsePanic
                         ELSE LET z == CHOOSE q \in zeros : \A r \in zeros : q <= r
                                  s == SubSeq(byte_code, p + 1, z - 1)
                              IN IF ValidUtf8(s)
                                 THEN Parsed(CreateSymbol(s), z - p + 1)
                                 ELSE ParsePanic
                 [] opcode = 4 -> WithU64("CreateMap")
                 [] opcode = 5 -> WithU64("CreateList")
                 [] opcode = 6 -> WithU64("CreateClosure")
                 [] opcode = 10 -> WithU64("Dup")
                 [] opcode = 11 -> WithU8("DupNear")
                 [] opcode = 12 -> WithU64("Drop")
                 [] opcode = 13 -> WithU8("DropNear")
                 [] opcode = 20 -> Parsed(Pop, 1)
                 [] opcode = 21 -> WithU8("PopMultipleBelowTop")
                 [] opcode = 22 -> WithU64("PushAddress")
                 [] opcode = 23 -> WithU64("PushFromStack")
                 [] opcode = 24 -> WithU8("PushNearFromStack")
                 [] opcode = 30 -> WithU64("Jump")
                 [] opcode = 31 -> Parsed(Call, 1)
                 [] opcode = 32 -> Parsed(Return, 1)
                 [] opcode = 100 -> Parsed(Primitive("None"), 1)
                 [] OTHER ->
                      IF opcode < 101 \/ opcode > 100 + Len(PrimitiveKind_all)
                      THEN ParsePanic
                      ELSE Parsed(Primitive(PrimitiveKind_all[opcode - 100]), 1)

(***************************************************************************)
(* vm/fiber.rs: Fiber.  A fiber is a record                                *)
(*   [byte_code, ambients, status, ip, stack, heap, next_heap_address];    *)
(* the operators below take the fiber and give the fiber afterwards        *)
(* (with a result r where the Rust function returns one).                  *)
(***************************************************************************)
Running == [t |-> "Running"]

Done(value) == [t |-> "Done", value |-> value]

Panicked(value) == [t |-> "Panicked", value |-> value]

CreatingChannel(capacity) == [t |-> "CreatingChannel", capacity |-> capacity]

Sending(channel, message) == [t |-> "Sending", channel |-> channel, message |-> message]

Receiving(channel) == [t |-> "Receiving", channel |-> channel]

\* The process died of a Rust panic.
Abort(f, why) == [f EXCEPT !.status = [t |-> "Aborted", why |-> why]]

Aborted(f) == f.status.t = "Aborted"

AddressInByteCode(a) == [k |-> "code", a |-> a]

AddressInHeap(a) == [k |-> "heap", a |-> a]

Push(f, entry) == [f EXCEPT !.stack = Append(@, entry)]

\* Fiber::get_from_stack; the caller checks offset < Len(f.stack), the index
\* panics otherwise.
get_from_stack(f, offset) == f.stack[Len(f.stack) - offset]

\* Fiber::create_object
create_object(f, data) ==
    [f |-> [f EXCEPT !.heap = (f.next_heap_address :>
                                  [reference_count |-> 1, data |-> data]) @@ @,
                     !.next_heap_address = @ + 1],
     r |-> f.next_heap_address]

\* Fiber::free_object
free_object(f, address) ==
    [f EXCEPT !.heap = [a \in (DOMAIN @) \ {address} |-> @[a]]]

\* Fiber::dup; get_from_heap unwraps, so a freed address panics.
dup(f, address) ==
    IF Aborted(f) THEN f
    ELSE IF address \notin DOMAIN f.heap THEN Abort(f, "use-after-free")
    ELSE [f EXCEPT !.heap[address].reference_count = @ + 1]

\* The pointers an object holds, in the order drop visits them.
PointersOf(data) ==
    CASE data.t = "Map" ->
            Concat([i \in 1..Len(data.entry_ptrs) |->
                        <<data.entry_ptrs[i][1], data.entry_ptrs[i][2]>>])
      [] data.t = "List" -> data.item_ptrs
      [] data.t = "Closure" -> data.captured_ptrs
      [] OTHER -> <<>>

RECURSIVE drop(_, _), drop_all(_, _)
\* Fiber::drop
drop(f, address) ==
    IF Aborted(f) THEN f
    ELSE IF address \notin DOMAIN f.heap THEN Abort(f, "use-after-free")
    ELSE IF f.heap[address].reference_count = 0
    THEN Abort(f, "reference count below zero")
    ELSE LET f1 == [f EXCEPT !.heap[address].reference_count = @ - 1]
         IN IF f1.heap[address].reference_count # 0 THEN f1
            ELSE LET f2 == drop_all(f1, PointersOf(f1.heap[address].data))
                 IN IF Aborted(f2) THEN f2 ELSE free_object(f2, address)

drop_all(f, addresses) ==
    IF addresses = <<>> THEN f
    ELSE drop_all(drop(f, Head(addresses)), Tail(addresses))

RECURSIVE fiber_import(_, _), import_all(_, _)
\* Fiber::import
fiber_import(f, value) ==
    CASE value.t = "Map" ->
            LET flat == Concat([i \in 1..Len(value.entries) |->
                                   <<value.entries[i][1], value.entries[i][2]>>])
                res == import_all(f, flat)
            IN create_object(res.f,
                   [t |-> "Map",
                    entry_ptrs |-> [i \in 1..Len(value.entries) |->
                                       <<res.r[2 * i - 1], res.r[2 * i]>>]])
      [] value.t = "List" ->
            LET res == import_all(f, value.items)
            IN create_object(res.f, [t |-> "List", item_ptrs |-> res.r])
      [] value.t = "Closure" ->
            LET res == import_all(f, value.captured)
            IN create_object(res.f, [t |-> "Closure", captured_ptrs |-> res.r,
                                     body |-> value.body])
      [] OTHER -> create_object(f, value)

import_all(f, values) ==
    IF values = <<>> THEN [f |-> f, r |-> <<>>]
    ELSE LET first == fiber_import(f, Head(values))
             rest == import_all(first.f, Tail(values))
         IN [f |-> rest.f, r |-> <<first.r>> \o rest.r]

RECURSIVE export_helper(_, _), export_all(_, _)
\* Fiber::export_helper; ok is FALSE when get_from_heap panicked.  The
\* entries of a Map are listed as the object holds them, one for each key
\* object.
export_helper(f, address) ==
    IF address \notin DOMAIN f.heap THEN [ok |-> FALSE, r |-> unit]
    ELSE LET data == f.heap[address].data
         IN CASE data.t = "Map" ->
                    LET res == export_all(f, PointersOf(data))
                    IN [ok |-> res.ok,
                        r |-> IF res.ok
                              THEN MapV([i \in 1..Len(data.entry_ptrs) |->
                                            <<res.r[2 * i - 1], res.r[2 * i]>>])
                              ELSE unit]
              [] data.t = "List" ->
                    LET res == export_all(f, data.item_ptrs)
                    IN [ok |-> res.ok, r |-> ListV(res.r)]
              [] data.t = "Closure" ->
                    LET res == export_all(f, data.captured_ptrs)
                    IN [ok |-> res.ok, r |-> ClosureV(res.r, data.body)]
              [] OTHER -> [ok |-> TRUE, r |-> data]

export_all(f, addresses) ==
    IF addresses = <<>> THEN [ok |-> TRUE, r |-> <<>>]
    ELSE LET first == export_helper(f, Head(addresses))
             rest == export_all(f, Tail(addresses))
         IN [ok |-> first.ok /\ rest.ok, r |-> <<first.r>> \o rest.r]

\* An export that leaves the object where it is.
export_without_drop(f, address) ==
    LET res == export_helper(f, address)
    IN IF ~res.ok THEN [f |-> Abort(f, "use-after-free"), r |-> unit]
       ELSE [f |-> f, r |-> res.r]

\* Fiber::export
export(f, address) ==
    LET res == export_helper(f, address)
    IN IF ~res.ok THEN [f |-> Abort(f, "use-after-free"), r |-> unit]
       ELSE [f |-> drop(f, address), r |-> res.r]

\* fiber.rs wrong_usage_panic_status
wrong_usage_panic_status(message) ==
    Panicked(ListV(<<SymbolV(SymWrongUsage), TextV(message)>>))

\* Results of the primitive_* functions: Ok(Some(value)), Ok(None) with the
\* status the primitive has set, Err(message).
OkValue(v) == [r |-> "value", value |-> v]

OkStatus(s) == [r |-> "status", status |-> s]

Err(message) == [r |-> "err", message |-> message]

RECURSIVE SumInts(_)
SumInts(items) == IF items = <<>> THEN 0 ELSE Head(items).n + SumInts(Tail(items))

\* Fiber::primitive_add
primitive_add(arg) ==
    IF arg.t # "List" THEN Err("add needs a list")
    ELSE IF \E i \in 1..Len(arg.items) : arg.items[i].t # "Int"
    THEN Err("add needs a list that contains only numbers")
    ELSE OkValue(IntV(SumInts(arg.items)))

\* Fiber::primitive_get_item
primitive_get_item(arg) ==
    IF arg.t # "List" THEN Err("get-item needs a list")
    ELSE IF Len(arg.items) # 2 THEN Err("get-item needs a list with two values")
    ELSE LET list == arg.items[1]
             index == arg.items[2]
         IN IF list.t # "List" \/ index.t # "Int"
            THEN Err("get-item needs a list with a list and an index")
            ELSE IF index.n < 0 \/ index.n >= Len(list.items)
            THEN Err("get-item: the index is out of bounds")
            ELSE OkValue(list.items[index.n + 1])

\* Fiber::primitive_get_ambient; ambients is a sequence of <<name, value>>.
primitive_get_ambient(f, arg) ==
    IF arg.t # "Symbol" THEN Err("GetAmbient needs a symbol.")
    ELSE LET found == {i \in 1..Len(f.ambients) : f.ambients[i][1] = arg.s}
         IN IF found = {} THEN Err("No ambient with that name exists.")
            ELSE OkValue(f.ambients[CHOOSE i \in found : TRUE][2])

\* Fiber::primitive_panic
primitive_panic(arg) == OkStatus(Panicked(arg))

\* Fiber::primitive_create_channel; `capacity as u64`.
primitive_create_channel(arg) ==
    IF arg.t # "Int" THEN Err("CreateChannel needs an int.")
    ELSE OkStatus(CreatingChannel(IF arg.n < 0 THEN Huge ELSE arg.n))

\* Fiber::primitive_send
primitive_send(arg) ==
    IF arg.t # "List" THEN Err("Send needs a list.")
    ELSE IF Len(arg.items) # 2
    THEN Err("Send called with a list that has a different number than 2 elements.")
    ELSE IF arg.items[1].t # "ChannelSendEnd"
    THEN Err("Send called with a list where the first item is not a ChannelSendEnd.")
    ELSE OkStatus(Sending(arg.items[1].id, arg.items[2]))

\* Fiber::primitive_receive
primitive_receive(arg) ==
    IF arg.t # "ChannelReceiveEnd"
    THEN Err("Receive called, but the argument is not a ChannelReceiveEnd.")
    ELSE OkStatus(Receiving(arg.id))

\* split_kind_and_arg inside run_instruction
split_kind_and_arg(arg) ==
    IF arg.t # "List" THEN Err("Primitive called with a non-list.")
    ELSE IF Len(arg.items) # 2
    THEN Err("Primitive called with a list that doesn't contain 2 items.")
    ELSE IF arg.items[1].t # "Symbol"
    THEN Err("Primitive called, but the first argument is not a symbol.")
    ELSE IF PrimitiveKind_parse(arg.items[1].s) = "None"
    THEN Err("Unknown primitive.")
    ELSE [r |-> "kind", kind |-> PrimitiveKind_parse(arg.items[1].s),
          arg |-> arg.items[2]]

\* The `match kind` of the Primitive arm.
primitive_result(f, kind, arg) ==
    CASE kind = "Add" -> primitive_add(arg)
      [] kind = "GetItem" -> primitive_get_item(arg)
      [] kind = "GetAmbient" -> primitive_get_ambient(f, arg)
      [] kind = "Panic" -> primitive_panic(arg)
      [] kind = "CreateChannel" -> primitive_create_channel(arg)
      [] kind = "Send" -> primitive_send(arg)
      [] kind = "Receive" -> primitive_receive(arg)

\* Why popping n heap addresses off the stack panics, or "ok".
PopCheck(stack, n) ==
    LET m == IF n > Len(stack) THEN Len(stack) + 1 ELSE n
        bad == {j \in 1..m : j > Len(stack) \/ stack[Len(stack) + 1 - j].k # "heap"}
    IN IF bad = {} THEN "ok"
       ELSE IF (CHOOSE j \in bad : \A b \in bad : j <= b) > Len(stack)
       THEN "pop from an empty stack"
       ELSE "byte code address where a heap address is expected"

\* The addresses of the top n entries, oldest first (the `.rev()`).
TopAddresses(stack, n) == [j \in 1..n |-> stack[Len(stack) - n + j].a]

Truncate(stack, n) == SubSeq(stack, 1, Len(stack) - n)

\* HashMap::insert on a map kept as a sequence of <<key, value>>.
MapInsert(map, key, value) ==
    IF \E i \in 1..Len(map) : map[i][1] = key
    THEN [i \in 1..Len(map) |-> IF map[i][1] = key THEN <<key, value>> ELSE map[i]]
    ELSE Append(map, <<key, value>>)

RECURSIVE MapFromPairs(_, _)
MapFromPairs(map, flat) ==
    IF flat = <<>> THEN map
    ELSE MapFromPairs(MapInsert(map, flat[1], flat[2]), Tail(Tail(flat)))

\* The pops of the CreateMap and CreateList arms: n heap addresses.
PopAddresses(f, n) ==
    IF PopCheck(f.stack, n) # "ok" THEN Abort(f, PopCheck(f.stack, n))
    ELSE [f EXCEPT !.stack = Truncate(@, n)]

\* The stack entry of the Dup/Drop arms is a heap address; "ok" or the panic.
EntryCheck(f, offset) ==
    IF offset >= Len(f.stack) THEN "stack index out of range"
    ELSE IF get_from_stack(f, offset).k # "heap"
    THEN "byte code address where a heap address is expected"
    ELSE "ok"

PushFrom(f, offset) ==
    IF offset >= Len(f.stack) THEN Abort(f, "stack index out of range")
    ELSE Push(f, get_from_stack(f, offset))

PushNew(f, data) ==
    LET res == create_object(f, data) IN Push(res.f, AddressInHeap(res.r))

\* The CreateMap arm.
create_map(f, len) ==
    IF len > Len(f.stack) THEN Abort(f, "pop from an empty stack")
    ELSE LET popped == PopAddresses(f, 2 * len)
         IN IF Aborted(popped) THEN popped
            ELSE PushNew(popped,
                     [t |-> "Map",
                      entry_ptrs |-> MapFromPairs(<<>>, TopAddresses(f.stack, 2 * len))])

\* The CreateList arm.
create_list(f, len) ==
    LET popped == PopAddresses(f, len)
    IN IF Aborted(popped) THEN popped
       ELSE PushNew(popped, [t |-> "List", item_ptrs |-> TopAddresses(f.stack, len)])

\* The Dup and DupNear arms.
dup_instruction(f, stack_offset) ==
    IF EntryCheck(f, stack_offset) # "ok" THEN Abort(f, EntryCheck(f, stack_offset))
    ELSE dup(f, get_from_stack(f, stack_offset).a)

\* The Drop and DropNear arms.
drop_instruction(f, stack_offset) ==
    IF EntryCheck(f, stack_offset) # "ok" THEN Abort(f, EntryCheck(f, stack_offset))
    ELSE drop(f, get_from_stack(f, stack_offset).a)

\* The CreateClosure arm: the captured variables, then the body address.
create_closure(f, num_captured_vars) ==
    IF PopCheck(f.stack, num_captured_vars) # "ok"
    THEN Abort(f, PopCheck(f.stack, num_captured_vars))
    ELSE LET captured_vars == TopAddresses(f.stack, num_captured_vars)
             below == Truncate(f.stack, num_captured_vars)
         IN IF below = <<>> THEN Abort(f, "pop from an empty stack")
            ELSE IF Last(below).k # "code"
            THEN Abort(f, "heap address where a byte code address is expected")
            ELSE LET res == create_object(
                                [f EXCEPT !.stack = Front(below)],
                                [t |-> "Closure", captured_ptrs |-> captured_vars,
                                 body |-> Last(below).a])
                 IN Push(res.f, AddressInHeap(res.r))

\* The PopMultipleBelowTop arm; the pops below the top ignore an empty stack.
pop_multiple_below_top(f, n) ==
    IF f.stack = <<>> THEN Abort(f, "pop from an empty stack")
    ELSE LET rest == Front(f.stack)
             kept == IF n >= Len(rest) THEN <<>> ELSE Truncate(rest, n)
         IN [f EXCEPT !.stack = Append(kept, Last(f.stack))]

\* The Call arm; f.ip is already the address after the Call.
call(f) ==
    IF Len(f.stack) < 2 THEN Abort(f, "pop from an empty stack")
    ELSE LET arg == Last(f.stack)
             closure == f.stack[Len(f.stack) - 1]
         IN IF closure.k # "heap"
            THEN Abort(f, "byte code address where a heap address is expected")
            ELSE IF closure.a \notin DOMAIN f.heap THEN Abort(f, "use-after-free")
            ELSE IF f.heap[closure.a].data.t # "Closure"
            THEN Abort(f, "call of an object that is not a closure")
            ELSE LET data == f.heap[closure.a].data
                 IN [f EXCEPT
                       !.stack = Truncate(@, 2) \o <<AddressInByteCode(f.ip)>>
                                 \o [j \in 1..Len(data.captured_ptrs) |->
                                        AddressInHeap(data.captured_ptrs[j])]
                                 \o <<arg>>,
                       !.ip = data.body]

\* The Return arm.
return(f) ==
    IF Len(f.stack) < 2 THEN Abort(f, "pop from an empty stack")
    ELSE IF f.stack[Len(f.stack) - 1].k # "code"
    THEN Abort(f, "heap address where a byte code address is expected")
    ELSE [f EXCEPT !.stack = Append(Truncate(@, 2), Last(f.stack)),
                   !.ip = f.stack[Len(f.stack) - 1].a]

\* The Primitive arm.
primitive(f, kind) ==
    IF f.stack = <<>> THEN Abort(f, "pop from an empty stack")
    ELSE IF Last(f.stack).k # "heap"
    THEN Abort(f, "byte code address where a heap address is expected")
    ELSE LET exported == export([f EXCEPT !.stack = Front(@)], Last(f.stack).a)
             f1 == exported.f
             split == IF kind # "None"
                      THEN [r |-> "kind", kind |-> kind, arg |-> exported.r]
                      ELSE split_kind_and_arg(exported.r)
         IN IF Aborted(f1) THEN f1
            ELSE IF split.r = "err"
            THEN [f1 EXCEPT !.status = wrong_usage_panic_status(split.message)]
            ELSE LET result == primitive_result(f1, split.kind, split.arg)
                 IN CASE result.r = "value" ->
                            LET imported == fiber_import(f1, result.value)
                            IN Push(imported.f, AddressInHeap(imported.r))
                      [] result.r = "status" -> [f1 EXCEPT !.status = result.status]
                      [] result.r = "err" ->
                            [f1 EXCEPT !.status = wrong_usage_panic_status(result.message)]

\* Fiber::run_instruction
run_instruction(f, i) ==
    CASE i.op = "CreateInt" -> PushNew(f, IntV(i.n))
      [] i.op \in {"CreateString", "CreateSmallString"} -> PushNew(f, StringV(i.s))
      [] i.op = "CreateSymbol" -> PushNew(f, SymbolV(i.s))
      [] i.op = "CreateMap" -> create_map(f, i.n)
      [] i.op = "CreateList" -> create_list(f, i.n)
      [] i.op = "CreateClosure" -> create_closure(f, i.n)
      [] i.op \in {"Dup", "DupNear"} -> dup_instruction(f, i.n)
      [] i.op \in {"Drop", "DropNear"} -> drop_instruction(f, i.n)
      [] i.op = "Pop" -> [f EXCEPT !.stack = IF @ = <<>> THEN @ ELSE Front(@)]
      [] i.op = "PopMultipleBelowTop" -> pop_multiple_below_top(f, i.n)
      [] i.op = "PushAddress" -> Push(f, AddressInByteCode(i.n))
      [] i.op \in {"PushFromStack", "PushNearFromStack"} -> PushFrom(f, i.n)
      [] i.op = "Jump" -> [f EXCEPT !.ip = i.n]
      [] i.op = "Call" -> call(f)
      [] i.op = "Return" -> return(f)
      [] i.op = "Primitive" -> primitive(f, i.kind)

\* The end of the loop body of Fiber::run: running off the end of the byte
\* code pops the result, whatever the status is.
finish_if_at_end(f) ==
    IF Aborted(f) \/ f.ip < Len(f.byte_code) THEN f
    ELSE IF f.stack = <<>> THEN Abort(f, "pop from an empty stack")
    ELSE IF Last(f.stack).k # "heap" THEN Abort(f, "Can only return values.")
    ELSE LET exported == export([f EXCEPT !.stack = Front(@)], Last(f.stack).a)
         IN IF Aborted(exported.f) THEN exported.f
            ELSE [exported.f EXCEPT !.status = Done(exported.r)]

\* One iteration of the loop of Fiber::run.
fiber_step(f) ==
    IF f.ip > Len(f.byte_code) THEN Abort(f, "slice index out of range")
    ELSE LET parsed == parse(f.byte_code, f.ip)
         IN IF ~parsed.ok THEN Abort(f, "Couldn't parse instruction.")
            ELSE finish_if_at_end(
                     run_instruction([f EXCEPT !.ip = @ + parsed.consumed],
                                     parsed.instruction))

RECURSIVE fiber_run_loop(_, _)
fiber_run_loop(f, num_instructions) ==
    IF f.status.t # "Running" \/ num_instructions = 0 THEN f
    ELSE fiber_run_loop(fiber_step(f), num_instructions - 1)

\* Fiber::run with a loop that takes one turn more than it is given.
fiber_run_one_more(f, num_instructions) ==
    IF f.status.t # "Running"
    THEN Abort(f, "Called run on Fiber with a status that is not running.")
    ELSE fiber_run_loop(f, num_instructions + 1)

\* Fiber::run
fiber_run(f, num_instructions) ==
    IF f.status.t # "Running"
    THEN Abort(f, "Called run on Fiber with a status that is not running.")
    ELSE fiber_run_loop(f, num_instructions)

\* Fiber::new
Fiber_new(byte_code, ambients, dot) ==
    LET imported == fiber_import(
            [byte_code |-> byte_code, ambients |-> ambients, status |-> Running,
             ip |-> 0, stack |-> <<>>, heap |-> <<>>,
             next_heap_address |-> 123450000], dot)
    IN Push(imported.f, AddressInHeap(imported.r))

\* A resolve_creating_channel that hands out the receive end twice.
resolve_creating_channel_receive_ends(f, id) ==
    LET imported == fiber_import(f, ListV(<<ChannelReceiveEndV(id),
                                            ChannelReceiveEndV(id)>>))
    IN [Push(imported.f, AddressInHeap(imported.r)) EXCEPT !.status = Running]

\* Fiber::resolve_creating_channel
resolve_creating_channel(f, id) ==
    LET imported == fiber_import(f, ListV(<<ChannelSendEndV(id), ChannelReceiveEndV(id)>>))
    IN [Push(imported.f, AddressInHeap(imported.r)) EXCEPT !.status = Running]

\* A resolve_sending that pushes nothing.
resolve_sending_without_unit(f) == [f EXCEPT !.status = Running]

\* Fiber::resolve_sending
resolve_sending(f) ==
    LET imported == fiber_import(f, unit)
    IN [Push(imported.f, AddressInHeap(imported.r)) EXCEPT !.status = Running]

\* Fiber::resolve_receiving
resolve_receiving(f, message) ==
    LET imported == fiber_import(f, message)
    IN [Push(imported.f, AddressInHeap(imported.r)) EXCEPT !.status = Running]

(***************************************************************************)
(* vm/vm.rs: Vm.  The operators work on a record of the Vm's fields, to    *)
(* which the model adds three fields that the program does not have:       *)
(*   accepted, delivered  per internal channel, the messages Channel::send *)
(*                        has taken and Channel::receive has handed out;   *)
(*   crash                why the process panicked, "" while it has not.   *)
(***************************************************************************)
VmRunning == [t |-> "Running"]

VmDone(value) == [t |-> "Done", value |-> value]

VmPanicked(value) == [t |-> "Panicked", value |-> value]

WaitingForPendingOperations == [t |-> "WaitingForPendingOperations"]

Send(id, message) == [t |-> "Send", id |-> id, message |-> message]

Receive(id) == [t |-> "Receive", id |-> id]

External(id) == [kind |-> "External", id |-> id]

Internal(capacity, messages) ==
    [kind |-> "Internal", capacity |-> capacity, messages |-> messages]

Crash(vm, why) == [vm EXCEPT !.crash = IF @ = "" THEN why ELSE @]

RemoveAt(seq, index) ==
    [j \in 1..(Len(seq) - 1) |-> IF j < index THEN seq[j] ELSE seq[j + 1]]

\* A send that also fits when the buffer is full.
Channel_send_accepts_when_full(channel) == Len(channel.messages) <= channel.capacity

\* Channel::send: whether the message fits.
Channel_send_accepts(channel) == Len(channel.messages) < channel.capacity

\* Channel::send, the messages afterwards when the message fits.
Channel_send(messages, message) == Append(messages, message)

\* A receive that hands out the newest message.
Channel_receive_newest(messages) == Last(messages)

\* Channel::receive, the message handed out of a non-empty channel.
Channel_receive(messages) == Head(messages)

\* Channel::receive, the messages left.
Channel_receive_rest(messages) == Tail(messages)

\* A mapping whose proxy channel carries the internal id.
internal_channel_for_external_by_internal_id(vm, external_id) ==
    IF external_id \in DOMAIN vm.external_to_internal_channel THEN vm
    ELSE [vm EXCEPT
            !.external_to_internal_channel = (external_id :> vm.next_channel_id) @@ @,
            !.channels = (vm.next_channel_id :> External(vm.next_channel_id)) @@ @,
            !.next_channel_id = @ + 1]

\* Vm::internal_channel_for_external: the Vm with the mapping made.
internal_channel_for_external(vm, external_id) ==
    IF external_id \in DOMAIN vm.external_to_internal_channel THEN vm
    ELSE [vm EXCEPT
            !.external_to_internal_channel = (external_id :> vm.next_channel_id) @@ @,
            !.channels = (vm.next_channel_id :> External(external_id)) @@ @,
            !.next_channel_id = @ + 1]

\* Vm::import of a channel end or of a value without channel ends (the
\* ambients of main.rs are channel ends).
vm_import(vm, value) ==
    IF value.t \in {"ChannelSendEnd", "ChannelReceiveEnd"}
    THEN LET vm1 == internal_channel_for_external(vm, value.id)
         IN [vm |-> vm1,
             r |-> [value EXCEPT !.id = vm1.external_to_internal_channel[value.id]]]
    ELSE [vm |-> vm, r |-> value]

RECURSIVE import_ambients(_, _)
import_ambients(vm, ambients) ==
    IF ambients = <<>> THEN [vm |-> vm, r |-> <<>>]
    ELSE LET first == vm_import(vm, Head(ambients)[2])
             rest == import_ambients(first.vm, Tail(ambients))
         IN [vm |-> rest.vm, r |-> <<<<Head(ambients)[1], first.r>>>> \o rest.r]

\* Vm::new; ambients in the order the HashMap hands them out.
Vm_new(byte_code, ambients) ==
    LET empty == [status |-> VmRunning, children |-> <<>>,
                  external_pending_operations |-> <<>>,
                  internal_pending_operations |-> <<>>,
                  external_to_internal_channel |-> <<>>,
                  next_channel_id |-> 0, channels |-> <<>>,
                  accepted |-> <<>>, delivered |-> <<>>, crash |-> ""]
        imported == import_ambients(empty, ambients)
    IN [imported.vm EXCEPT
          !.children = <<[priority |-> 1,
                          fiber |-> Fiber_new(byte_code, imported.r, unit)]>>]

\* The first child whose fiber has the given status, 0 if there is none.
FirstChildWith(vm, fiber_status) ==
    LET found == {c \in 1..Len(vm.children) : vm.children[c].fiber.status = fiber_status}
    IN IF found = {} THEN 0 ELSE CHOOSE c \in found : \A d \in found : c <= d

\* The body of the inner `while index < len` loop of Vm::run from `index`
\* (0-based) on.
RECURSIVE serve_from(_, _)
serve_from(vm, index) ==
    IF vm.crash # "" \/ index >= Len(vm.internal_pending_operations) THEN vm
    ELSE LET operation == vm.internal_pending_operations[index + 1]
             id == operation.id
         IN IF id \notin DOMAIN vm.channels
            THEN Crash(vm, "unwrap of a channel that does not exist")
            ELSE IF vm.channels[id].kind # "Internal"
            THEN Crash(vm, "to_internal of an external channel")
            ELSE IF operation.t = "Send"
            THEN IF Channel_send_accepts(vm.channels[id])
                 THEN LET c == FirstChildWith(vm, Sending(id, operation.message))
                          vm1 == [vm EXCEPT
                                    !.channels[id].messages =
                                        Channel_send(@, operation.message),
                                    !.accepted[id] = Append(@, operation.message),
                                    !.internal_pending_operations = RemoveAt(@, index + 1)]
                          vm2 == IF c = 0 THEN vm1
                                 ELSE [vm1 EXCEPT !.children[c].fiber = resolve_sending(@)]
                      IN serve_from(vm2, index)
                 ELSE serve_from(vm, index + 1)
            ELSE IF vm.channels[id].messages # <<>>
                 THEN LET message == Channel_receive(vm.channels[id].messages)
                          c == FirstChildWith(vm, Receiving(id))
                          vm1 == [vm EXCEPT
                                    !.channels[id].messages = Channel_receive_rest(@),
                                    !.delivered[id] =
                                        IF c = 0 THEN @ ELSE Append(@, message),
                                    !.internal_pending_operations = RemoveAt(@, index + 1)]
                          vm2 == IF c = 0 THEN vm1
                                 ELSE [vm1 EXCEPT
                                         !.children[c].fiber = resolve_receiving(@, message)]
                      IN serve_from(vm2, index)
                 ELSE serve_from(vm, index + 1)

\* A loop that goes through the operations once.
serve_one_round(vm, last_round) == serve_from(vm, 0)

\* The outer `while last_round > len` loop of Vm::run.
RECURSIVE serve_internal_pending_operations(_, _)
serve_internal_pending_operations(vm, last_round) ==
    IF vm.crash # "" \/ last_round <= Len(vm.internal_pending_operations) THEN vm
    ELSE serve_internal_pending_operations(
             serve_from(vm, 0), Len(vm.internal_pending_operations))

\* The `match fiber.status()` of Vm::run after the chosen child has run.
after_child_ran(vm, c) ==
    LET fiber == vm.children[c].fiber
        fiber_status == fiber.status
    IN CASE fiber_status.t = "Aborted" -> Crash(vm, fiber_status.why)
         [] fiber_status.t = "Running" -> vm
         [] fiber_status.t = "Done" -> [vm EXCEPT !.status = VmDone(fiber_status.value)]
         [] fiber_status.t = "Panicked" ->
               [vm EXCEPT !.status = VmPanicked(fiber_status.value)]
         [] fiber_status.t = "CreatingChannel" ->
               LET id == vm.next_channel_id
               IN [vm EXCEPT
                     !.next_channel_id = @ + 1,
                     !.channels = (id :> Internal(fiber_status.capacity, <<>>)) @@ @,
                     !.accepted = (id :> <<>>) @@ @,
                     !.delivered = (id :> <<>>) @@ @,
                     !.children[c].fiber = resolve_creating_channel(@, id)]
         [] fiber_status.t \in {"Sending", "Receiving"} ->
               LET channel == fiber_status.channel
               IN IF channel \notin DOMAIN vm.channels
                  THEN Crash(vm, "unwrap of a channel that does not exist")
                  ELSE LET external == vm.channels[channel].kind = "External"
                           id == IF external THEN vm.channels[channel].id ELSE channel
                           operation == IF fiber_status.t = "Sending"
                                        THEN Send(id, fiber_status.message)
                                        ELSE Receive(id)
                       IN IF external
                          THEN [vm EXCEPT !.external_pending_operations =
                                              Append(@, operation)]
                          ELSE [vm EXCEPT !.internal_pending_operations =
                                              Append(@, operation)]

\* The children the filter of Vm::run keeps, as indices into children.
RunningChildren(vm) ==
    SortedSeq({c \in 1..Len(vm.children) : vm.children[c].fiber.status.t = "Running"})

\* Vm::run.  `chosen` is the position the random number selects in the
\* filtered list (1-based); the child run is children[chosen].
vm_run(vm, num_instructions, chosen) ==
    IF RunningChildren(vm) = <<>>
    THEN [vm EXCEPT !.status = WaitingForPendingOperations]
    ELSE LET ran == [vm EXCEPT !.children[chosen].fiber =
                                   fiber_run(@, num_instructions)]
             matched == after_child_ran(ran, chosen)
         IN serve_internal_pending_operations(
                matched, Len(matched.internal_pending_operations) + 1)

\* The candidates of resolve_send / resolve_receive.
ResolveCandidates(vm, fiber_status) ==
    {c \in 1..Len(vm.children) : vm.children[c].fiber.status = fiber_status}

\* The common part of Vm::resolve_send and Vm::resolve_receive: find and
\* remove the operation, look up the internal id.  `index` is 0 when the
\* position() is None.
OperationIndex(vm, operation) ==
    LET found == {j \in 1..Len(vm.external_pending_operations) :
                     vm.external_pending_operations[j] = operation}
    IN IF found = {} THEN 0 ELSE CHOOSE j \in found : \A k \in found : j <= k

\* Vm::resolve_send; `resolved` is the candidate that choose() picks.
resolve_send(vm, channel, message, resolved) ==
    LET index == OperationIndex(vm, Send(channel, message))
    IN IF index = 0 THEN Crash(vm, "unwrap of the position of an operation")
       ELSE IF channel \notin DOMAIN vm.external_to_internal_channel
       THEN Crash(vm, "no internal channel for the external channel")
       ELSE IF resolved \notin
                 ResolveCandidates(vm, Sending(vm.external_to_internal_channel[channel],
                                               message))
       THEN Crash(vm, "unwrap of the chosen candidate")
       ELSE [vm EXCEPT !.external_pending_operations = RemoveAt(@, index),
                       !.children[resolved].fiber = resolve_sending(@),
                       !.status = VmRunning]

\* A resolve_receive that leaves the operation in the list.
resolve_receive_keeping_operation(vm, channel, message, resolved) ==
    LET index == OperationIndex(vm, Receive(channel))
    IN IF index = 0 THEN Crash(vm, "unwrap of the position of an operation")
       ELSE IF channel \notin DOMAIN vm.external_to_internal_channel
       THEN Crash(vm, "no internal channel for the external channel")
       ELSE IF resolved \notin
                 ResolveCandidates(vm, Receiving(vm.external_to_internal_channel[channel]))
       THEN Crash(vm, "unwrap of the chosen candidate")
       ELSE [vm EXCEPT !.children[resolved].fiber = resolve_receiving(@, message),
                       !.status = VmRunning]

\* Vm::resolve_receive
resolve_receive(vm, channel, message, resolved) ==
    LET index == OperationIndex(vm, Receive(channel))
    IN IF index = 0 THEN Crash(vm, "unwrap of the position of an operation")
       ELSE IF channel \notin DOMAIN vm.external_to_internal_channel
       THEN Crash(vm, "no internal channel for the external channel")
       ELSE IF resolved \notin
                 ResolveCandidates(vm, Receiving(vm.external_to_internal_channel[channel]))
       THEN Crash(vm, "unwrap of the chosen candidate")
       ELSE [vm EXCEPT !.external_pending_operations = RemoveAt(@, index),
                       !.children[resolved].fiber = resolve_receiving(@, message),
                       !.status = VmRunning]

(***************************************************************************)
(* Byte code for the Vm: programs assembled from phrases that keep the     *)
(* stack at <<dot, ends>>, ends being the list [send end, receive end] of  *)
(* the channel the program creates first.                                  *)
(***************************************************************************)
SymStdout == <<115, 116, 100, 111, 117, 116>>

SymStdin == <<115, 116, 100, 105, 110>>

Assemble(instructions) ==
    Concat([k \in 1..Len(instructions) |-> to_bytes(instructions[k])])

\* [channel, capacity] through the generic primitive instruction.
CreateChannelPhrase(capacity) ==
    <<CreateSymbol(SymChannel), CreateInt(capacity), CreateList(2), Primitive("None")>>

\* ends[index] on top of the stack.
GetEndPhrase(index) ==
    <<DupNear(0), PushNearFromStack(0), CreateInt(index), CreateList(2),
      Primitive("GetItem")>>

SendPhrase(n) ==
    GetEndPhrase(0) \o <<CreateInt(n), CreateList(2), Primitive("Send"), Pop>>

ReceivePhrase == GetEndPhrase(1) \o <<Primitive("Receive"), Pop>>

ExternalSendPhrase(n) ==
    <<CreateSymbol(SymStdout), Primitive("GetAmbient"), CreateInt(n), CreateList(2),
      Primitive("Send"), Pop>>

ExternalReceivePhrase ==
    <<CreateSmallString(SymStdin), Pop, CreateSymbol(SymStdin),
      Primitive("GetAmbient"), Primitive("Receive"), Pop>>

Phrase(op) ==
    CASE op = "S1" -> SendPhrase(1)
      [] op = "S2" -> SendPhrase(2)
      [] op = "R" -> ReceivePhrase
      [] op = "XS" -> ExternalSendPhrase(3)
      [] op = "XR" -> ExternalReceivePhrase

EndPhrase(end) ==
    IF end = "done" THEN <<CreateInt(42), PopMultipleBelowTop(2)>>
    ELSE <<CreateInt(13), Primitive("Panic"), Pop>>

VmProgram(capacity, ops, end) ==
    Assemble(CreateChannelPhrase(capacity)
             \o Concat([k \in 1..Len(ops) |-> Phrase(ops[k])])
             \o EndPhrase(end))

\* The largest capacity of a channel a program creates.
MaxCapacity == 2

OpSequences ==
    {<<>>, <<"R">>, <<"S1", "S2", "R", "R">>, <<"S2", "S1", "R", "R">>,
     <<"S1", "R", "S2", "R">>, <<"XS", "XR">>, <<"XR", "S1", "XS">>,
     <<"S1", "XR", "R">>}

\* The ambients of main.rs, in either order of the HashMap.
MainAmbients ==
    {<<<<SymStdout, ChannelSendEndV(0)>>, <<SymStdin, ChannelReceiveEndV(1)>>>>,
     <<<<SymStdin, ChannelReceiveEndV(1)>>, <<SymStdout, ChannelSendEndV(0)>>>>}

\* The num_instructions of main.rs.
MainNumInstructions == 30

NumInstructions == {1, MainNumInstructions}

\* What the embedder answers to a receive.
ExternalMessages == {StringV(<<104, 105>>), IntV(5)}

(***************************************************************************)
(* The state: the fields of the Vm, the three model fields, the last call  *)
(* made on the Vm, [op, channel, message], and what the host keeps.        *)
(***************************************************************************)
VARIABLES status, children, external_pending_operations,
          internal_pending_operations, external_to_internal_channel,
          next_channel_id, channels, accepted, delivered, crash, last_call,
          build, shadow, pass, host_ambients

vars == <<status, children, external_pending_operations,
          internal_pending_operations, external_to_internal_channel,
          next_channel_id, channels, accepted, delivered, crash, last_call,
          build, shadow, pass, host_ambients>>

\* build is what the compiler made of a source program: the VM programs below
\* are assembled by hand, not built.  shadow follows a built program as it
\* runs; it is not state of the interpreter.
NotBuilt == [asts |-> <<>>]

NoShadow == [ids |-> <<>>, frames |-> <<>>, steps |-> 0]

\* pass is a pass of the HIR optimiser at work on a block: the block it was
\* given, the call made on it and what the call left.
NoPass == [op |-> "none"]

\* host_ambients is the HashMap of ambients that the host handed to Vm::new,
\* in the order the HashMap hands them out, with the ids of the host.
NoAmbients == <<>>

Vm == [status |-> status, children |-> children,
       external_pending_operations |-> external_pending_operations,
       internal_pending_operations |-> internal_pending_operations,
       external_to_internal_channel |-> external_to_internal_channel,
       next_channel_id |-> next_channel_id, channels |-> channels,
       accepted |-> accepted, delivered |-> delivered, crash |-> crash]

VmIs(vm) ==
    /\ status = vm.status
    /\ children = vm.children
    /\ external_pending_operations = vm.external_pending_operations
    /\ internal_pending_operations = vm.internal_pending_operations
    /\ external_to_internal_channel = vm.external_to_internal_channel
    /\ next_channel_id = vm.next_channel_id
    /\ channels = vm.channels
    /\ accepted = vm.accepted
    /\ delivered = vm.delivered
    /\ crash = vm.crash

VmBecomes(vm) ==
    /\ status' = vm.status
    /\ children' = vm.children
    /\ external_pending_operations' = vm.external_pending_operations
    /\ internal_pending_operations' = vm.internal_pending_operations
    /\ external_to_internal_channel' = vm.external_to_internal_channel
    /\ next_channel_id' = vm.next_channel_id
    /\ channels' = vm.channels
    /\ accepted' = vm.accepted
    /\ delivered' = vm.delivered
    /\ crash' = vm.crash

\* Vm::new on one of the programs.
Init ==
    /\ host_ambients \in MainAmbients
    /\ \E capacity \in 0..MaxCapacity, ops \in OpSequences, end \in {"done", "panic"} :
          VmIs(Vm_new(VmProgram(capacity, ops, end), host_ambients))
    /\ last_call = [op |-> "new", channel |-> 0, message |-> unit]
    /\ build = NotBuilt
    /\ shadow = NoShadow
    /\ pass = NoPass

\* A call of Vm::run.
VmRun ==
    /\ crash = ""
    /\ \E num_instructions \in NumInstructions :
       \E chosen \in (IF RunningChildren(Vm) = <<>> THEN {0}
                      ELSE 1..Len(RunningChildren(Vm))) :
          VmBecomes(vm_run(Vm, num_instructions, chosen))
    /\ last_call' = [op |-> "run", channel |-> 0, message |-> unit]
    /\ UNCHANGED <<build, shadow, pass, host_ambients>>

\* The operations an embedder may resolve: the pending ones, and one that is
\* not pending.
ResolvableOperations ==
    Range(external_pending_operations) \cup {Send(0, IntV(9))}

CandidatesOrNone(fiber_status) ==
    IF ResolveCandidates(Vm, fiber_status) = {} THEN {0}
    ELSE ResolveCandidates(Vm, fiber_status)

InternalId(channel) ==
    IF channel \in DOMAIN external_to_internal_channel
    THEN external_to_internal_channel[channel] ELSE 0

\* A call of Vm::resolve_send.
ResolveSend ==
    /\ crash = ""
    /\ \E operation \in {o \in ResolvableOperations : o.t = "Send"} :
       \E resolved \in CandidatesOrNone(Sending(InternalId(operation.id),
                                                 operation.message)) :
          /\ VmBecomes(resolve_send(Vm, operation.id, operation.message, resolved))
          /\ last_call' = [op |-> "resolve_send", channel |-> operation.id,
                           message |-> operation.message]
    /\ UNCHANGED <<build, shadow, pass, host_ambients>>

\* A call of Vm::resolve_receive.
ResolveReceive ==
    /\ crash = ""
    /\ \E operation \in {o \in ResolvableOperations : o.t = "Receive"},
          message \in ExternalMessages :
       \E resolved \in CandidatesOrNone(Receiving(InternalId(operation.id))) :
          /\ VmBecomes(resolve_receive(Vm, operation.id, message, resolved))
          /\ last_call' = [op |-> "resolve_receive", channel |-> operation.id,
                           message |-> message]
    /\ UNCHANGED <<build, shadow, pass, host_ambients>>

Next == VmRun \/ ResolveSend \/ ResolveReceive

Spec == Init /\ [][Next]_vars

(***************************************************************************)
(* compiler/hir.rs: Code and Statement.  A Code is                         *)
(* [in_, out, statements]; statement k of a block has the id in_ + k.      *)
(* Maps are sequences of <<key, value>>.                                   *)
(***************************************************************************)
HirInt(n) == [t |-> "Int", n |-> n]

HirString(s) == [t |-> "String", s |-> s]

HirSymbol(s) == [t |-> "Symbol", s |-> s]

HirMap(map) == [t |-> "Map", map |-> map]

HirList(list) == [t |-> "List", list |-> list]

HirCode(code) == [t |-> "Code", code |-> code]

HirCall(fun, arg) == [t |-> "Call", fun |-> fun, arg |-> arg]

HirPrimitive(kind, arg) == [t |-> "Primitive", kind |-> kind, arg |-> arg]

\* Statement::unit
Statement_unit == HirSymbol(<<>>)

\* Code::new
Code_new(in_, out) == [in_ |-> in_, out |-> out, statements |-> <<>>]

\* Code::next_id
next_id(code) == code.in_ + Len(code.statements) + 1

\* Code::push: the block with the statement appended and out set to its id.
Code_push(code, statement) ==
    [code EXCEPT !.statements = Append(@, statement), !.out = next_id(code)]

\* Code::child
child(code, out) == Code_new(next_id(code), out)

\* Code::child_identity
child_identity(code) == Code_new(next_id(code), next_id(code))

\* The ids of the statements of a block (Code::iter).
IdsOf(code) == (code.in_ + 1)..(code.in_ + Len(code.statements))

\* Code::get for an id of the block.
Code_get(code, id) == code.statements[id - code.in_]

RECURSIVE collect_used_ids(_)
\* Statement::collect_used_ids, as the set of ids it inserts.
collect_used_ids(statement) ==
    CASE statement.t = "Map" ->
            UNION {{statement.map[k][1], statement.map[k][2]} :
                      k \in 1..Len(statement.map)}
      [] statement.t = "List" -> Range(statement.list)
      [] statement.t = "Code" ->
            {statement.code.in_, statement.code.out}
            \cup UNION {collect_used_ids(statement.code.statements[k]) :
                           k \in 1..Len(statement.code.statements)}
      [] statement.t = "Call" -> {statement.fun, statement.arg}
      [] statement.t = "Primitive" -> {statement.arg}
      [] OTHER -> {}

(***************************************************************************)
(* compiler/hir.rs: Code::replace_range and replace_ids.  The closures     *)
(* handed to replace_ids are records here: the one of replace_range is     *)
(* [kind |-> "range", start, end, shift, remap], the one of                *)
(* inline_code_helper [kind |-> "inline", in_, arg, shift].  A panic of    *)
(* the closure (`expect` of a missing replacement) gives the id Missing.   *)
(* `order` is the order in which a HashMap hands out its entries.          *)
(***************************************************************************)
Missing == 0 - 1

\* A closure that leaves the ids after the range where they were.
transform_without_shift(t, id) ==
    IF id = Missing THEN Missing
    ELSE IF t.kind = "range"
    THEN IF id < t.start \/ id >= t.end THEN id
         ELSE IF id \in DOMAIN t.remap THEN t.remap[id]
         ELSE Missing
    ELSE IF id = t.in_ THEN t.arg
         ELSE IF id > t.in_ THEN id + t.shift
         ELSE id

\* The closure `transform` of replace_range, and the one of
\* inline_code_helper.
transform(t, id) ==
    IF id = Missing THEN Missing
    ELSE IF t.kind = "range"
    THEN IF id < t.start THEN id
         ELSE IF id >= t.end THEN id + t.shift
         ELSE IF id \in DOMAIN t.remap THEN t.remap[id]
         ELSE Missing
    ELSE IF id = t.in_ THEN t.arg
         ELSE IF id > t.in_ THEN id + t.shift
         ELSE id

\* The loop of the Map arm of Statement::replace_ids: the entries are
\* inserted into a new HashMap as the old one hands them out.  When the
\* closure panics the loop ends, which the entry of Missing stands for.
RECURSIVE TransformEntries(_, _, _)
TransformEntries(entries, t, new_map) ==
    IF entries = <<>> THEN new_map
    ELSE LET key == transform(t, Head(entries)[1])
             value == transform(t, Head(entries)[2])
         IN IF Missing \in {key, value} THEN <<<<Missing, Missing>>>>
            ELSE TransformEntries(Tail(entries), t, MapInsert(new_map, key, value))

RECURSIVE statement_replace_ids(_, _, _)
\* Statement::replace_ids
statement_replace_ids(statement, t, order) ==
    CASE statement.t = "Map" ->
            HirMap(TransformEntries(IF order = "ascending" THEN statement.map
                                    ELSE Reverse(statement.map), t, <<>>))
      [] statement.t = "List" ->
            HirList([k \in 1..Len(statement.list) |-> transform(t, statement.list[k])])
      [] statement.t = "Code" ->
            HirCode([in_ |-> transform(t, statement.code.in_),
                     out |-> transform(t, statement.code.out),
                     statements |->
                        [k \in 1..Len(statement.code.statements) |->
                            statement_replace_ids(statement.code.statements[k],
                                                  t, order)]])
      [] statement.t = "Call" ->
            HirCall(transform(t, statement.fun), transform(t, statement.arg))
      [] statement.t = "Primitive" ->
            HirPrimitive(statement.kind, transform(t, statement.arg))
      [] OTHER -> statement

\* Code::replace_ids
code_replace_ids(code, t, order) ==
    statement_replace_ids(HirCode(code), t, order).code

\* The ids a block mentions: its in and out and the ids in its statements.
MentionedIds(code) == collect_used_ids(HirCode(code))

\* Code::replace_range: [ok, code], ok FALSE when it panics (a slice out
\* of range, a reference into the range that has no replacement).
replace_range(code, start, length, replacement, reference_replacements, order) ==
    LET end == start + length
        start_index == start - code.in_ - 1
        end_index == end - code.in_ - 1
        t == [kind |-> "range", start |-> start, end |-> end,
              shift |-> Len(replacement) - length,
              remap |-> reference_replacements]
    IN IF start_index < 0 \/ end_index > Len(code.statements)
       THEN [ok |-> FALSE, code |-> code]
       ELSE LET after == [k \in 1..(Len(code.statements) - end_index) |->
                             statement_replace_ids(code.statements[end_index + k],
                                                   t, order)]
                new == [in_ |-> transform(t, code.in_),
                        out |-> transform(t, code.out),
                        statements |-> SubSeq(code.statements, 1, start_index)
                                       \o replacement \o after]
            IN IF Missing \in {new.in_, new.out}
                              \cup UNION {collect_used_ids(after[k]) :
                                             k \in 1..Len(after)}
               THEN [ok |-> FALSE, code |-> code]
               ELSE [ok |-> TRUE, code |-> new]

(***************************************************************************)
(* compiler/optimize_hir.rs: inline_code.  `statements` is the im::HashMap *)
(* of the statements seen so far, a function from ids to statements.  The  *)
(* result is [ok, code], ok FALSE when an unwrap or replace_range panics.  *)
(* The ids of the loop are fixed when it starts, as the range              *)
(* `self.in_ + 1..self.next_id()` is.                                      *)
(***************************************************************************)
InlineFailed(code) == [ok |-> FALSE, code |-> code]

\* The arm of inline_code_helper for a Call of a known Code: the callee is
\* renumbered and put in the place of the Call.
inline_call(code, id, callee, arg, order) ==
    LET in_ == callee.in_
        shift == id - in_ - 1
        renumbered == code_replace_ids(callee, [kind |-> "inline", in_ |-> in_,
                                                arg |-> arg, shift |-> shift], order)
        updates == (id :> renumbered.out + shift)
    IN IF shift < 0 THEN InlineFailed(code)
       ELSE replace_range(code, id, 1, renumbered.statements, updates, order)

RECURSIVE inline_code_helper(_, _, _), inline_code_loop(_, _, _, _, _)
\* One turn of the loop of inline_code_helper, and the turns after it.
inline_code_loop(code, statements, id, end, order) ==
    IF id >= end THEN [ok |-> TRUE, code |-> code]
    ELSE IF id \notin IdsOf(code) THEN InlineFailed(code)
    ELSE LET statement == Code_get(code, id)
         IN IF statement.t = "Call"
            THEN IF statement.fun \notin DOMAIN statements THEN InlineFailed(code)
                 ELSE IF statements[statement.fun].t = "Code"
                 THEN LET inlined == inline_call(code, id, statements[statement.fun].code,
                                                 statement.arg, order)
                      IN IF ~inlined.ok THEN InlineFailed(code)
                         ELSE inline_code_loop(inlined.code, statements, id + 1, end,
                                               order)
                 ELSE inline_code_loop(code, statements, id + 1, end, order)
            ELSE LET inner == IF statement.t = "Code"
                              THEN inline_code_helper(statement.code, statements, order)
                              ELSE [ok |-> TRUE, code |-> <<>>]
                     now == IF statement.t = "Code" THEN HirCode(inner.code)
                            ELSE statement
                     next == [code EXCEPT !.statements[id - code.in_] = now]
                 IN IF ~inner.ok THEN InlineFailed(code)
                    ELSE inline_code_loop(next, (id :> now) @@ statements, id + 1,
                                          end, order)

inline_code_helper(code, statements, order) ==
    inline_code_loop(code, statements, code.in_ + 1, next_id(code), order)

inline_code(code, order) == inline_code_helper(code, <<>>, order)

(***************************************************************************)
(* compiler/optimize_hir.rs: the passes over one block.  Each returns      *)
(* [ok, code], ok FALSE when an unwrap or replace_range panics.  The enum  *)
(* the passes match on is written Primitive::Magic, Primitive::Add and     *)
(* Primitive::Print; here Magic is the kind "None" of a primitive that is  *)
(* not specialised yet, and Add and Print are the kinds "Add" and "Print". *)
(***************************************************************************)
\* The variant in which no statement may be removed.
Statement_is_pure_never(statement) == FALSE

Statement_is_pure(statement) ==
    CASE statement.t \in {"Int", "String", "Symbol", "Map", "List", "Code"} -> TRUE
      [] statement.t = "Call" -> FALSE
      [] statement.t = "Primitive" -> statement.kind = "Add"

RECURSIVE remove_unused_statements(_, _), remove_unused_scan(_, _, _, _, _)
\* The reverse loop of remove_unused_statements over the statements k, k-1,
\* ...: the block with its nested blocks cleaned, and the ids to remove in
\* the order in which they were found.
remove_unused_scan(code, k, used, removable, order) ==
    IF k = 0 THEN [ok |-> TRUE, code |-> code, removable |-> removable]
    ELSE LET id == code.in_ + k
             statement == code.statements[k]
             inner == IF statement.t = "Code"
                      THEN remove_unused_statements(statement.code, order)
                      ELSE [ok |-> TRUE, code |-> <<>>]
             now == IF statement.t = "Code" THEN HirCode(inner.code) ELSE statement
             next == [code EXCEPT !.statements[k] = now]
         IN IF ~inner.ok THEN [ok |-> FALSE, code |-> code, removable |-> <<>>]
            ELSE IF id \notin used /\ Statement_is_pure(now)
            THEN remove_unused_scan(next, k - 1, used, Append(removable, id), order)
            ELSE remove_unused_scan(next, k - 1, used \cup collect_used_ids(now),
                                    removable, order)

RECURSIVE remove_all(_, _, _)
\* The loop `for id in removable`, each id removed with an empty map of
\* reference replacements.
remove_all(code, removable, order) ==
    IF removable = <<>> THEN [ok |-> TRUE, code |-> code]
    ELSE LET removed == replace_range(code, Head(removable), 1, <<>>, <<>>, order)
         IN IF ~removed.ok THEN [ok |-> FALSE, code |-> code]
            ELSE remove_all(removed.code, Tail(removable), order)

remove_unused_statements(code, order) ==
    LET scanned == remove_unused_scan(code, Len(code.statements), {code.out},
                                      <<>>, order)
    IN IF ~scanned.ok THEN [ok |-> FALSE, code |-> code]
       ELSE LET removed == remove_all(scanned.code, scanned.removable, order)
            IN IF removed.ok THEN removed ELSE [ok |-> FALSE, code |-> code]

\* The bytes of "print", the second name try_making_concrete knows.
SymPrint == <<112, 114, 105, 110, 116>>

\* Statement::try_making_concrete: [panic, some, statement].
try_making_concrete(statement, statements) ==
    LET none == [panic |-> FALSE, some |-> FALSE, statement |-> statement]
        panic == [panic |-> TRUE, some |-> FALSE, statement |-> statement]
    IN IF ~(statement.t = "Primitive" /\ statement.kind = "None") THEN none
       ELSE IF statement.arg \notin DOMAIN statements THEN panic
       ELSE LET arg == statements[statement.arg]
            IN IF arg.t # "List" THEN none
               ELSE IF Len(arg.list) # 2 THEN none
               ELSE IF arg.list[1] \notin DOMAIN statements THEN panic
               ELSE LET name == statements[arg.list[1]]
                    IN IF name.t # "Symbol" THEN none
                       ELSE IF name.s = SymAdd
                       THEN [panic |-> FALSE, some |-> TRUE,
                             statement |-> HirPrimitive("Add", arg.list[2])]
                       ELSE IF name.s = SymPrint
                       THEN [panic |-> FALSE, some |-> TRUE,
                             statement |-> HirPrimitive("Print", arg.list[2])]
                       ELSE none

RECURSIVE make_primitives_concrete_helper(_, _, _),
          make_primitives_concrete_loop(_, _, _, _, _)
\* One turn of the loop of make_primitives_concrete_helper, and the turns
\* after it.
make_primitives_concrete_loop(code, statements, id, end, order) ==
    IF id >= end THEN [ok |-> TRUE, code |-> code]
    ELSE IF id \notin IdsOf(code) THEN [ok |-> FALSE, code |-> code]
    ELSE LET statement == Code_get(code, id)
             inner == IF statement.t = "Code"
                      THEN make_primitives_concrete_helper(statement.code,
                                                           statements, order)
                      ELSE [ok |-> TRUE, code |-> <<>>]
             now == IF statement.t = "Code" THEN HirCode(inner.code) ELSE statement
             next == [code EXCEPT !.statements[id - code.in_] = now]
             seen == (id :> now) @@ statements
             concrete == try_making_concrete(now, seen)
         IN IF ~inner.ok \/ concrete.panic THEN [ok |-> FALSE, code |-> code]
            ELSE IF concrete.some
            THEN LET replaced == replace_range(next, id, 1, <<concrete.statement>>,
                                               (id :> id), order)
                 IN IF ~replaced.ok THEN [ok |-> FALSE, code |-> code]
                    ELSE make_primitives_concrete_loop(replaced.code, seen, id + 1,
                                                       end, order)
            ELSE make_primitives_concrete_loop(next, seen, id + 1, end, order)

make_primitives_concrete_helper(code, statements, order) ==
    make_primitives_concrete_loop(code, statements, code.in_ + 1, next_id(code),
                                  order)

make_primitives_concrete(code, order) ==
    make_primitives_concrete_helper(code, <<>>, order)

RECURSIVE SumOfInts(_, _)
\* The sum that run_pure_primitive computes over a list of ids: the items
\* that are not Ints yield None in the closure and are dropped by flatten.
SumOfInts(list, statements) ==
    IF list = <<>> THEN 0
    ELSE (IF statements[Head(list)].t = "Int" THEN statements[Head(list)].n ELSE 0)
         + SumOfInts(Tail(list), statements)

\* Code::run_pure_primitive: [panic, some, statement].
run_pure_primitive(kind, arg, statements) ==
    LET none == [panic |-> FALSE, some |-> FALSE, statement |-> HirInt(0)]
        panic == [panic |-> TRUE, some |-> FALSE, statement |-> HirInt(0)]
    IN IF kind # "Add" THEN panic
       ELSE IF arg \notin DOMAIN statements THEN panic
       ELSE IF statements[arg].t # "List" THEN none
       ELSE IF \E k \in 1..Len(statements[arg].list) :
                  statements[arg].list[k] \notin DOMAIN statements
       THEN panic
       ELSE [panic |-> FALSE, some |-> TRUE,
             statement |-> HirInt(SumOfInts(statements[arg].list, statements))]

RECURSIVE run_pure_primitives_loop(_, _, _)
\* The loop of run_pure_primitives_helper over the statements k, k+1, ... of
\* the block itself; `statements` receives each statement as it was.
run_pure_primitives_loop(code, statements, k) ==
    IF k > Len(code.statements) THEN [ok |-> TRUE, code |-> code]
    ELSE LET id == code.in_ + k
             clone == code.statements[k]
             seen == (id :> clone) @@ statements
         IN IF clone.t = "Primitive" /\ Statement_is_pure(clone)
            THEN LET result == run_pure_primitive(clone.kind, clone.arg, statements)
                 IN IF result.panic THEN [ok |-> FALSE, code |-> code]
                    ELSE IF result.some
                    THEN run_pure_primitives_loop(
                             [code EXCEPT !.statements[k] = result.statement],
                             seen, k + 1)
                    ELSE run_pure_primitives_loop(code, seen, k + 1)
            ELSE run_pure_primitives_loop(code, seen, k + 1)

run_pure_primitives(code) == run_pure_primitives_loop(code, <<>>, 1)

(***************************************************************************)
(* compiler/optimize_hir.rs: deduplicate_statements and Code::optimize.    *)
(* pure_statements, the map from a statement to the id that holds it, is a *)
(* sequence of [statement, id].                                            *)
(***************************************************************************)
\* pure_statements.get(&statement): the id, Missing for None.
ExistingId(pure_statements, statement) ==
    LET found == {k \in 1..Len(pure_statements) :
                     pure_statements[k].statement = statement}
    IN IF found = {} THEN Missing
       ELSE pure_statements[CHOOSE k \in found : TRUE].id

RECURSIVE deduplicate_statements_helper(_, _, _),
          deduplicate_statements_loop(_, _, _, _)
\* The `while id < self.next_id() - 1` loop of deduplicate_statements_helper:
\* the id steps on by one also behind a statement that was removed.
deduplicate_statements_loop(code, pure_statements, id, order) ==
    IF id >= next_id(code) - 1 THEN [ok |-> TRUE, code |-> code]
    ELSE LET statement == Code_get(code, id + 1)
         IN IF ~Statement_is_pure(statement)
            THEN deduplicate_statements_loop(code, pure_statements, id + 1, order)
            ELSE LET inner == IF statement.t = "Code"
                              THEN deduplicate_statements_helper(
                                       statement.code, pure_statements, order)
                              ELSE [ok |-> TRUE, code |-> <<>>]
                     now == IF statement.t = "Code" THEN HirCode(inner.code)
                            ELSE statement
                     next == [code EXCEPT !.statements[id + 1 - code.in_] = now]
                     existing_id == ExistingId(pure_statements, now)
                 IN IF ~inner.ok THEN [ok |-> FALSE, code |-> code]
                    ELSE IF existing_id # Missing
                    THEN LET replaced == replace_range(next, id + 1, 1, <<>>,
                                                       (id + 1 :> existing_id), order)
                         IN IF ~replaced.ok THEN [ok |-> FALSE, code |-> code]
                            ELSE deduplicate_statements_loop(
                                     replaced.code, pure_statements, id + 1, order)
                    ELSE deduplicate_statements_loop(
                             next,
                             Append(pure_statements,
                                    [statement |-> now, id |-> id + 1]),
                             id + 1, order)

deduplicate_statements_helper(code, pure_statements, order) ==
    deduplicate_statements_loop(code, pure_statements, code.in_, order)

deduplicate_statements(code, order) ==
    deduplicate_statements_helper(code, <<>>, order)

RECURSIVE Code_size(_)
\* Code::size and Statement::size
Code_size(code) ==
    IF code.statements = <<>> THEN 0
    ELSE LET statement == Head(code.statements)
         IN (IF statement.t = "Code" THEN 1 + Code_size(statement.code) ELSE 1)
            + Code_size([code EXCEPT !.statements = Tail(@)])

\* The body of the loop of Code::optimize: the five passes, each on what
\* the one before it left.  Each pass is the one element of a set, so that
\* the passes behind it work on its value.
optimize_passes(code, order) ==
    LET deduplicated == {deduplicate_statements(code, order)}
        removed == {IF d.ok THEN remove_unused_statements(d.code, order) ELSE d :
                       d \in deduplicated}
        concrete == {IF r.ok THEN make_primitives_concrete(r.code, order) ELSE r :
                        r \in removed}
        run == {IF c.ok THEN run_pure_primitives(c.code) ELSE c : c \in concrete}
        inlined == {IF p.ok THEN inline_code(p.code, order) ELSE p : p \in run}
    IN CHOOSE passed \in inlined : TRUE

RECURSIVE optimize_until_stable(_, _, _)
\* The loop of Code::optimize: it ends when a turn leaves the size as it was.
optimize_until_stable(code, size, order) ==
    LET turns == {IF ~passed.ok THEN [ok |-> FALSE, code |-> code]
                  ELSE IF size = Code_size(passed.code) THEN passed
                  ELSE optimize_until_stable(passed.code, Code_size(passed.code),
                                             order) :
                     passed \in {optimize_passes(code, order)}}
    IN CHOOSE optimized \in turns : TRUE

\* Code::optimize
hir_optimize(code, order) == optimize_until_stable(code, Code_size(code), order)

(***************************************************************************)
(* compiler/ast.rs and compiler/ast_to_hir.rs.  An Ast is a record with    *)
(* the tag t; Asts are sequences.  The name of the generic primitive (the  *)
(* sparkles) is written "magic".  A Compiler is [code, funs, error];       *)
(* error is TRUE after the `expect` of a name that is not bound.           *)
(***************************************************************************)
AstInt(n) == [t |-> "Int", n |-> n]

AstString(s) == [t |-> "String", s |-> s]

AstSymbol(s) == [t |-> "Symbol", s |-> s]

AstMap(entries) == [t |-> "Map", entries |-> entries]

AstList(items) == [t |-> "List", items |-> items]

AstCode(code) == [t |-> "Code", code |-> code]

AstName(name) == [t |-> "Name", name |-> name]

AstLet(name) == [t |-> "Let", name |-> name]

AstFun(name) == [t |-> "Fun", name |-> name]

\* Compiler::push: the compiler afterwards and the id of the statement.
Compiler_push(compiler, statement) ==
    [c |-> [compiler EXCEPT !.code = Code_push(@, statement)],
     dot |-> next_id(compiler.code)]

RECURSIVE compile(_, _, _), compile_single(_, _, _), compile_items(_, _, _),
          compile_entries(_, _, _)
\* Compiler::compile: the compiler afterwards and the last dot.
compile(compiler, dot, asts) ==
    IF asts = <<>> \/ compiler.error THEN [c |-> compiler, dot |-> dot]
    ELSE LET first == compile_single(compiler, dot, Head(asts))
         IN compile(first.c, first.dot, Tail(asts))

\* The loop of the Ast::List arm: the compiler and the ids of the items.
compile_items(compiler, dot, items) ==
    IF items = <<>> THEN [c |-> compiler, list |-> <<>>]
    ELSE LET first == compile(compiler, dot, Head(items))
             rest == compile_items(first.c, dot, Tail(items))
         IN [c |-> rest.c, list |-> <<first.dot>> \o rest.list]

\* The loop of the Ast::Map arm.
compile_entries(compiler, dot, entries) ==
    IF entries = <<>> THEN [c |-> compiler, map |-> <<>>]
    ELSE LET key == compile(compiler, dot, Head(entries)[1])
             value == compile(key.c, dot, Head(entries)[2])
             rest == compile_entries(value.c, dot, Tail(entries))
         IN [c |-> rest.c, map |-> <<<<key.dot, value.dot>>>> \o rest.map]

\* Compiler::compile_single
compile_single(compiler, dot, ast) ==
    CASE ast.t = "Int" -> Compiler_push(compiler, HirInt(ast.n))
      [] ast.t = "String" -> Compiler_push(compiler, HirString(ast.s))
      [] ast.t = "Symbol" -> Compiler_push(compiler, HirSymbol(ast.s))
      [] ast.t = "Map" ->
            LET res == compile_entries(compiler, dot, ast.entries)
            IN Compiler_push(res.c, HirMap(MapFromPairs(<<>>, Concat(res.map))))
      [] ast.t = "List" ->
            LET res == compile_items(compiler, dot, ast.items)
            IN Compiler_push(res.c, HirList(res.list))
      [] ast.t = "Code" ->
            LET inner == [code |-> child_identity(compiler.code),
                          funs |-> compiler.funs, error |-> compiler.error]
                res == compile(inner, inner.code.in_, ast.code)
            IN Compiler_push([compiler EXCEPT !.error = res.c.error],
                             HirCode(res.c.code))
      [] ast.t = "Name" ->
            IF ast.name = "." THEN [c |-> compiler, dot |-> dot]
            ELSE IF ast.name = "magic"
            THEN Compiler_push(compiler, HirPrimitive("None", dot))
            ELSE IF ast.name \notin DOMAIN compiler.funs
            THEN [c |-> [compiler EXCEPT !.error = TRUE], dot |-> dot]
            ELSE Compiler_push(compiler, HirCall(compiler.funs[ast.name], dot))
      [] ast.t = "Let" ->
            LET code == Compiler_push(compiler, HirCode(child(compiler.code, dot)))
            IN Compiler_push([code.c EXCEPT !.funs = (ast.name :> code.dot) @@ @],
                             Statement_unit)
      [] ast.t = "Fun" ->
            Compiler_push([compiler EXCEPT !.funs = (ast.name :> dot) @@ @],
                          Statement_unit)

\* CompileAstsToHir::compile_to_hir: [ok, code].
compile_to_hir(asts) ==
    LET start == Compiler_push([code |-> Code_new(0, 0), funs |-> <<>>,
                                error |-> FALSE], Statement_unit)
        res == compile(start.c, start.dot, asts)
    IN [ok |-> ~res.c.error, code |-> res.c.code]

(***************************************************************************)
(* compiler/lir.rs and compiler/hir_to_lir.rs.  The two files that handle  *)
(* LIR disagree on Dup and Drop: lir.rs and hir_to_lir.rs give them one    *)
(* id, optimize_lir.rs a list of ids.  Here they carry a list; hir_to_lir  *)
(* makes lists of one id and the emitter emits one instruction per id.     *)
(* A closure is [captured, code, in_, out] with captured the sorted Vec    *)
(* that compile_to_lir builds.                                             *)
(***************************************************************************)
Assignment(id, value) == [t |-> "Assignment", id |-> id, value |-> value]

LirDup(ids) == [t |-> "Dup", ids |-> ids]

LirDrop(ids) == [t |-> "Drop", ids |-> ids]

ExprInt(n) == [t |-> "Int", n |-> n]

ExprString(s) == [t |-> "String", s |-> s]

ExprSymbol(s) == [t |-> "Symbol", s |-> s]

ExprClosure(closure) ==
    [t |-> "Closure", captured |-> closure.captured, code |-> closure.code,
     in_ |-> closure.in_, out |-> closure.out]

ExprMap(map) == [t |-> "Map", map |-> map]

ExprList(list) == [t |-> "List", list |-> list]

ExprCall(closure, arg) == [t |-> "Call", fun |-> closure, arg |-> arg]

ExprPrimitive(kind, arg) == [t |-> "Primitive", kind |-> kind, arg |-> arg]

\* The order in which the HashSet ids_to_drop hands out its ids: one of the
\* two orders the model draws from.
DropOrder(ids, order) ==
    IF order = "ascending" THEN SortedSeq(ids) ELSE Reverse(SortedSeq(ids))

RECURSIVE compile_to_lir(_, _), hir_statement_compile(_, _, _)
\* hir::Code::compile_to_lir
compile_to_lir(code, order) ==
    LET statements ==
            Concat([k \in 1..Len(code.statements) |->
                       hir_statement_compile(code.statements[k], code.in_ + k, order)])
        ids_to_drop == IdsOf(code) \ {code.out}
    IN [captured |->
            SortedSeq(UNION {collect_used_ids(code.statements[k]) :
                                k \in 1..Len(code.statements)}),
        in_ |-> code.in_,
        out |-> code.out,
        code |-> statements
                 \o [k \in 1..Cardinality(ids_to_drop) |->
                        LirDrop(<<DropOrder(ids_to_drop, order)[k]>>)]]

\* hir::Statement::compile
hir_statement_compile(statement, id, order) ==
    CASE statement.t = "Int" -> <<Assignment(id, ExprInt(statement.n))>>
      [] statement.t = "String" -> <<Assignment(id, ExprString(statement.s))>>
      [] statement.t = "Symbol" -> <<Assignment(id, ExprSymbol(statement.s))>>
      [] statement.t = "Map" ->
            Concat([k \in 1..Len(statement.map) |->
                       <<LirDup(<<statement.map[k][1]>>),
                         LirDup(<<statement.map[k][2]>>)>>])
            \o <<Assignment(id, ExprMap(statement.map))>>
      [] statement.t = "List" ->
            [k \in 1..Len(statement.list) |-> LirDup(<<statement.list[k]>>)]
            \o <<Assignment(id, ExprList(statement.list))>>
      [] statement.t = "Code" ->
            LET closure == compile_to_lir(statement.code, order)
            IN [k \in 1..Len(closure.captured) |-> LirDup(<<closure.captured[k]>>)]
               \o <<Assignment(id, ExprClosure(closure))>>
      [] statement.t = "Call" ->
            <<LirDup(<<statement.fun>>), LirDup(<<statement.arg>>),
              Assignment(id, ExprCall(statement.fun, statement.arg))>>
      [] statement.t = "Primitive" ->
            <<LirDup(<<statement.arg>>),
              Assignment(id, ExprPrimitive(statement.kind, statement.arg))>>

(***************************************************************************)
(* compiler/optimize_lir.rs                                                *)
(***************************************************************************)
Count(seq, x) == Cardinality({k \in 1..Len(seq) : seq[k] = x})

\* seq without the first n occurrences of x.
RECURSIVE RemoveFirst(_, _, _)
RemoveFirst(seq, x, n) ==
    IF n = 0 \/ seq = <<>> THEN seq
    ELSE IF Head(seq) = x THEN RemoveFirst(Tail(seq), x, n - 1)
    ELSE <<Head(seq)>> \o RemoveFirst(Tail(seq), x, n)

Min(a, b) == IF a < b THEN a ELSE b

RECURSIVE CancelIds(_, _, _)
CancelIds(ids, drop_ids, dup_ids) ==
    IF ids = {} THEN [drop |-> drop_ids, dup |-> dup_ids]
    ELSE LET id == CHOOSE x \in ids : TRUE
             n == Min(Count(drop_ids, id), Count(dup_ids, id))
         IN CancelIds(ids \ {id}, RemoveFirst(drop_ids, id, n),
                      RemoveFirst(dup_ids, id, n))

\* cancel_out: the two lists afterwards.
cancel_out(drop_ids, dup_ids) ==
    CancelIds(Range(drop_ids) \cup Range(dup_ids), drop_ids, dup_ids)

\* Expr::collect_used_ids of optimize_lir.rs
Expr_collect_used_ids(value) ==
    CASE value.t = "Closure" -> value.captured
      [] value.t = "Map" ->
            Concat([k \in 1..Len(value.map) |-> <<value.map[k][1], value.map[k][2]>>])
      [] value.t = "List" -> value.list
      [] value.t = "Call" -> <<value.fun, value.arg>>
      [] value.t = "Primitive" -> <<value.arg>>
      [] OTHER -> <<>>

RECURSIVE lir_optimize(_), optimize_loop(_, _, _)
\* One turn of the `while let Some(statement) = statements.next()` loop over
\* the reversed statements: what is left of them, to_drop and out afterwards.
optimize_turn(statements, to_drop, out) ==
    LET statement == Head(statements)
        rest == Tail(statements)
    IN CASE statement.t = "Drop" ->
               [statements |-> rest, to_drop |-> to_drop \o statement.ids, out |-> out]
         [] statement.t = "Dup" ->
               LET c == cancel_out(to_drop, statement.ids)
               IN [statements |-> rest, to_drop |-> c.drop,
                   out |-> IF c.dup # <<>> THEN Append(out, LirDup(c.dup)) ELSE out]
         [] statement.t = "Assignment" ->
               LET peeked == rest # <<>> /\ Head(rest).t = "Dup"
                   c1 == IF peeked THEN cancel_out(to_drop, Head(rest).ids)
                         ELSE [drop |-> to_drop, dup |-> <<>>]
                   c2 == cancel_out(c1.drop, Expr_collect_used_ids(statement.value))
                   has == statement.id \in Range(c2.drop)
                   value == IF statement.value.t = "Closure"
                            THEN [statement.value EXCEPT !.code = lir_optimize(@)]
                            ELSE statement.value
                   out1 == IF has THEN Append(out, LirDrop(<<statement.id>>))
                           ELSE out
                   out2 == Append(out1, Assignment(statement.id, value))
               IN [statements |-> IF peeked THEN Tail(rest) ELSE rest,
                   to_drop |-> RemoveFirst(c2.drop, statement.id, IF has THEN 1 ELSE 0),
                   out |-> IF peeked /\ c1.dup # <<>> THEN Append(out2, LirDup(c1.dup))
                           ELSE out2]

\* The loop, and the code after it.  The test of the lengths only makes TLC
\* evaluate a turn before it starts the next one.
optimize_loop(statements, to_drop, out) ==
    IF statements = <<>>
    THEN IF to_drop # <<>> THEN Append(out, LirDrop(to_drop)) ELSE out
    ELSE LET turn == optimize_turn(statements, to_drop, out)
         IN IF Len(turn.to_drop) + Len(turn.out) >= 0
            THEN optimize_loop(turn.statements, turn.to_drop, turn.out)
            ELSE out

\* OptimizeLir::optimize for Vec<Statement>
lir_optimize(statements) ==
    Reverse(optimize_loop(Reverse(statements), <<>>, <<>>))

\* OptimizeLir::optimize for Closure
closure_optimize(closure) == [closure EXCEPT !.code = lir_optimize(@)]

(***************************************************************************)
(* compiler/lir_to_byte_code.rs.  The emitter is a record                  *)
(*   [out, stack, error, last, trace, creates, bodies]:                    *)
(* out the byte code, stack the StackModel, error TRUE after a panic of    *)
(* the compiler (reference_id unwraps None).  The other fields are kept by *)
(* the model only: the address of the last instruction emitted, the stack  *)
(* model at the first instruction of each statement and of each body's     *)
(* end, the id whose value the instruction at an address leaves on the     *)
(* stack, and for each compiled body its closure and its addresses.        *)
(*                                                                         *)
(* push_instruction writes opcodes of a table of its own, which is not the *)
(* table of Instruction::to_bytes and Instruction::parse in byte_code.rs   *)
(* (and names a PrimitiveKind::Print that primitives.rs does not have).    *)
(* Both tables are modelled; `table` says which one the emitter writes.    *)
(***************************************************************************)
\* The bytes ByteCodeExt::push_instruction writes.
push_instruction_bytes(i) ==
    CASE i.op = "CreateInt" -> U8(0) \o U64(i.n)
      [] i.op = "CreateString" -> U8(1) \o U64(Len(i.s)) \o i.s
      [] i.op = "CreateSmallString" -> U8(17) \o U8(Len(i.s)) \o i.s
      [] i.op = "CreateSymbol" -> U8(2) \o i.s \o U8(0)
      [] i.op = "CreateMap" -> U8(3) \o U64(i.n)
      [] i.op = "CreateList" -> U8(4) \o U64(i.n)
      [] i.op = "CreateClosure" -> U8(5) \o U64(i.n)
      [] i.op = "Dup" -> U8(6) \o U64(i.n)
      [] i.op = "DupNear" -> U8(18) \o U8(i.n)
      [] i.op = "Drop" -> U8(7) \o U64(i.n)
      [] i.op = "DropNear" -> U8(19) \o U8(i.n)
      [] i.op = "Pop" -> U8(8)
      [] i.op = "PopMultipleBelowTop" -> U8(9) \o U8(i.n)
      [] i.op = "PushAddress" -> U8(10) \o U64(i.n)
      [] i.op = "PushFromStack" -> U8(11) \o U64(i.n)
      [] i.op = "PushNearFromStack" -> U8(20) \o U8(i.n)
      [] i.op = "Jump" -> U8(12) \o U64(i.n)
      [] i.op = "Call" -> U8(13)
      [] i.op = "Return" -> U8(14)
      [] i.op = "Primitive" ->
            IF i.kind = "None" THEN U8(15)
            ELSE IF i.kind = "Add" THEN U8(21)
            ELSE <<>>

\* The match of push_instruction has an arm for the instruction.
push_instruction_has_arm(i) == i.op = "Primitive" => i.kind \in {"None", "Add"}

Encode(table, i) ==
    IF table = "to_bytes" THEN to_bytes(i) ELSE push_instruction_bytes(i)

\* ByteCodeExt::current_address
current_address(e) == Len(e.out)

\* ByteCodeExt::push_instruction
push_instruction(e, i, table) ==
    IF e.error THEN e
    ELSE IF table # "to_bytes" /\ ~push_instruction_has_arm(i)
    THEN [e EXCEPT !.error = TRUE]
    ELSE [e EXCEPT !.out = @ \o Encode(table, i), !.last = Len(e.out)]

\* ByteCodeExt::update_jump_target
update_jump_target(out, jump_address, target) ==
    [k \in 1..Len(out) |->
        IF k > jump_address + 1 /\ k <= jump_address + 9
        THEN U64(target)[k - jump_address - 1]
        ELSE out[k]]

\* StackModelExt::reference_id, -1 when the position is None.
reference_id(stack, id) ==
    LET found == {k \in 1..Len(stack) : stack[k] = id}
    IN IF found = {} THEN -1
       ELSE Len(stack) - (CHOOSE k \in found : \A j \in found : j <= k)

\* lir_to_byte_code.rs dup_instruction
emit_dup_instruction(offset) ==
    IF offset < 256 THEN DupNear(offset) ELSE DupI(offset)

\* lir_to_byte_code.rs drop_instruction
emit_drop_instruction(offset) ==
    IF offset < 256 THEN DropNear(offset) ELSE DropI(offset)

\* lir_to_byte_code.rs push_from_stack_instruction
push_from_stack_instruction(offset) ==
    IF offset < 256 THEN PushNearFromStack(offset) ELSE PushFromStack(offset)

\* out.push_instruction(x_instruction(stack.reference_id(id)))
EmitReference(e, id, what, table) ==
    LET offset == reference_id(e.stack, id)
    IN IF e.error THEN e
       ELSE IF offset < 0 THEN [e EXCEPT !.error = TRUE]
       ELSE push_instruction(e,
                CASE what = "dup" -> emit_dup_instruction(offset)
                  [] what = "drop" -> emit_drop_instruction(offset)
                  [] what = "push" -> push_from_stack_instruction(offset),
                table)

StackPush(e, id) == [e EXCEPT !.stack = Append(@, id)]

\* Vec::remove_last, n times.
StackRemoveLast(e, n) ==
    IF n > Len(e.stack) THEN [e EXCEPT !.error = TRUE]
    ELSE [e EXCEPT !.stack = SubSeq(@, 1, Len(@) - n)]

\* The instruction just emitted leaves the value of id on the stack.
Creates(e, id) ==
    IF e.error THEN e
    ELSE [e EXCEPT !.creates = (e.last :> id) @@ @]

\* The stack model where the next statement begins.
AtStatement(e) ==
    [e EXCEPT !.trace = Append(@, [address |-> Len(e.out), stack |-> e.stack])]

\* push_from_stack(reference_id(id)); stack.push(id) for each id in turn.
RECURSIVE PushEach(_, _, _)
PushEach(e, ids, table) ==
    IF ids = <<>> THEN e
    ELSE PushEach(StackPush(EmitReference(e, Head(ids), "push", table), Head(ids)),
                  Tail(ids), table)

\* One instruction per id of a Dup or Drop statement.
RECURSIVE EmitEach(_, _, _, _)
EmitEach(e, ids, what, table) ==
    IF ids = <<>> THEN e
    ELSE EmitEach(EmitReference(e, Head(ids), what, table), Tail(ids), what, table)

RECURSIVE compile_body(_, _, _), lir_statement_compile(_, _, _),
          compile_statements(_, _, _)
compile_statements(e, statements, table) ==
    IF statements = <<>> THEN e
    ELSE compile_statements(
             lir_statement_compile(AtStatement(e), Head(statements), table),
             Tail(statements), table)

\* lir::Closure::compile_body; the stack model of the body is a local of
\* the function, the caller's model is as before.
compile_body(e, closure, table) ==
    LET body == compile_statements(
                    [e EXCEPT !.stack = Append(closure.captured, closure.in_)],
                    closure.code, table)
        pushed == EmitReference(AtStatement(body), closure.out, "push", table)
        popped == push_instruction(pushed, PopMultipleBelowTop(Len(body.stack)), table)
    IN [popped EXCEPT !.stack = e.stack,
                      !.bodies = Append(@, [captured |-> closure.captured,
                                            in_ |-> closure.in_, out |-> closure.out,
                                            start |-> Len(e.out),
                                            last |-> popped.last,
                                            end |-> Len(popped.out)])]

\* lir::Statement::compile
lir_statement_compile(e, statement, table) ==
    IF e.error THEN e
    ELSE IF statement.t = "Dup" THEN EmitEach(e, statement.ids, "dup", table)
    ELSE IF statement.t = "Drop" THEN EmitEach(e, statement.ids, "drop", table)
    ELSE LET id == statement.id
             value == statement.value
         IN CASE value.t = "Int" ->
                    StackPush(Creates(push_instruction(e, CreateInt(value.n), table), id), id)
              [] value.t = "String" ->
                    StackPush(Creates(push_instruction(e,
                        IF Len(value.s) < 256 THEN CreateSmallString(value.s)
                        ELSE CreateString(value.s), table), id), id)
              [] value.t = "Symbol" ->
                    StackPush(Creates(push_instruction(e, CreateSymbol(value.s), table), id), id)
              [] value.t = "Closure" ->
                    LET jump_addr == current_address(e)
                        jumped == push_instruction(e, Jump(0), table)
                        body_addr == current_address(jumped)
                        body == compile_body(jumped, value, table)
                        after_body_addr == current_address(body)
                        patched == [body EXCEPT !.out =
                                       update_jump_target(@, jump_addr, after_body_addr)]
                        address == StackPush(
                                       push_instruction(patched, PushAddress(body_addr), table),
                                       0)
                        captured == PushEach(address, value.captured, table)
                    IN StackPush(Creates(push_instruction(captured,
                           CreateClosure(Len(value.captured)), table), id), id)
              [] value.t = "Map" ->
                    LET pushed == PushEach(e, Expr_collect_used_ids(value), table)
                        created == Creates(push_instruction(pushed,
                                       CreateMap(Len(value.map)), table), id)
                    IN StackPush(StackRemoveLast(created, 2 * Len(value.map)), id)
              [] value.t = "List" ->
                    LET pushed == PushEach(e, value.list, table)
                        created == Creates(push_instruction(pushed,
                                       CreateList(Len(value.list)), table), id)
                    IN StackPush(StackRemoveLast(created, Len(value.list)), id)
              [] value.t = "Call" ->
                    LET pushed == PushEach(e, <<value.fun, value.arg>>, table)
                        called == Creates(push_instruction(pushed, Call, table), id)
                    IN StackPush(StackRemoveLast(called, 2), id)
              [] value.t = "Primitive" ->
                    LET pushed == EmitReference(e, value.arg, "push", table)
                        called == Creates(push_instruction(pushed, Primitive(value.kind),
                                                           table), id)
                    IN StackPush(StackRemoveLast(called, 1), id)

\* lir::Closure::compile_to_byte_code: the emitter at the end.
compile_to_byte_code(closure, table) ==
    compile_body([out |-> <<>>, stack |-> <<>>, error |-> FALSE, last |-> 0,
                  trace |-> <<>>, creates |-> <<>>, bodies |-> <<>>], closure, table)

(***************************************************************************)
(* main.rs, Mehl::Run: a source program is compiled to HIR, lowered to     *)
(* LIR, peephole-optimised, emitted as byte code and run in a Vm.  The     *)
(* programs are given as Asts (the parser is not part of the model).       *)
(***************************************************************************)
Dot == AstName(".")

Magic == AstName("magic")

Programs ==
    {
      \* 42
      <<AstInt(42)>>,
      \* "hi"
      <<AstString(<<104, 105>>)>>,
      \* (the empty program)
      <<>>,
      \* (1, 2)
      <<AstList(<< <<AstInt(1)>>, <<AstInt(2)>> >>)>>,
      \* {1, 2}
      <<AstMap(<< << <<AstInt(1)>>, <<AstInt(2)>> >> >>)>>,
      \* (:add, (1, 2)) magic
      <<AstList(<< <<AstSymbol(SymAdd)>>,
                   <<AstList(<< <<AstInt(1)>>, <<AstInt(2)>> >>)>> >>), Magic>>,
      \* (:panic, 3) magic
      <<AstList(<< <<AstSymbol(SymPanic)>>, <<AstInt(3)>> >>), Magic>>,
      \* [.]
      <<AstCode(<<Dot>>)>>,
      \* [42]
      <<AstCode(<<AstInt(42)>>)>>,
      \* 7 ([.], .)
      <<AstInt(7), AstList(<< <<AstCode(<<Dot>>)>>, <<Dot>> >>)>>,
      \* [.] => id 7 id
      <<AstCode(<<Dot>>), AstFun("id"), AstInt(7), AstName("id")>>,
      \* [42] => answer 7 answer
      <<AstCode(<<AstInt(42)>>), AstFun("answer"), AstInt(7), AstName("answer")>>,
      \* 7 -> seven 1 seven
      <<AstInt(7), AstLet("seven"), AstInt(1), AstName("seven")>>
    }

\* The order of a HashSet's iteration is not fixed.
DropOrders == {"ascending", "descending"}

\* The opcode table the emitter writes: the one of push_instruction, or the
\* one of Instruction::to_bytes, which Instruction::parse inverts.
Tables == {"push_instruction", "to_bytes"}

\* Mehl::Run up to `lir.compile_to_byte_code()`.
Build(asts, order, table) ==
    LET hir == compile_to_hir(asts)
        lir == closure_optimize(compile_to_lir(hir.code, order))
    IN [asts |-> asts, order |-> order, table |-> table,
        hir |-> hir.code, lir |-> lir,
        emitter |-> IF hir.ok THEN compile_to_byte_code(lir, table)
                    ELSE [out |-> <<>>, stack |-> <<>>, error |-> TRUE, last |-> 0,
                          trace |-> <<>>, creates |-> <<>>, bodies |-> <<>>]]

\* The ambients of Mehl::Run.
RunAmbients ==
    <<<<SymStdout, ChannelSendEndV(0)>>, <<SymStdin, ChannelReceiveEndV(1)>>>>

\* The process died in the compiler: there is no Vm.
NoVm ==
    [status |-> VmRunning, children |-> <<>>, external_pending_operations |-> <<>>,
     internal_pending_operations |-> <<>>, external_to_internal_channel |-> <<>>,
     next_channel_id |-> 0, channels |-> <<>>, accepted |-> <<>>,
     delivered |-> <<>>, crash |-> "compiler"]

MaxSteps == 40

\* The sequence without its last n elements.
Cut(seq, n) == IF n >= Len(seq) THEN <<>> ELSE SubSeq(seq, 1, Len(seq) - n)

\* The id the emitter gave to the value that the instruction at the address
\* creates, -2 if it gave none.
CreatedAt(address) ==
    IF address \in DOMAIN build.emitter.creates
    THEN build.emitter.creates[address] ELSE -2

\* The body that starts at the address, as the emitter recorded it.
BodyAt(address) ==
    LET found == {k \in 1..Len(build.emitter.bodies) :
                     build.emitter.bodies[k].start = address}
    IN IF found = {} THEN [captured |-> <<>>, in_ |-> -2]
       ELSE build.emitter.bodies[CHOOSE k \in found : TRUE]

\* The ids of the entries of the runtime stack after the instruction i at
\* the address has run and left the fiber at ip: 0 for the address of a
\* body, -1 for a return address.
ShadowIds(ids, i, address, ip) ==
    LET len == Len(ids)
    IN CASE i.op \in {"CreateInt", "CreateString", "CreateSmallString", "CreateSymbol"} ->
               Append(ids, CreatedAt(address))
         [] i.op = "CreateMap" -> Append(Cut(ids, 2 * i.n), CreatedAt(address))
         [] i.op = "CreateList" -> Append(Cut(ids, i.n), CreatedAt(address))
         [] i.op = "CreateClosure" -> Append(Cut(ids, i.n + 1), CreatedAt(address))
         [] i.op = "Pop" -> Cut(ids, 1)
         [] i.op = "PopMultipleBelowTop" ->
               IF ids = <<>> THEN ids ELSE Append(Cut(ids, i.n + 1), Last(ids))
         [] i.op = "PushAddress" -> Append(ids, 0)
         [] i.op \in {"PushFromStack", "PushNearFromStack"} ->
               Append(ids, IF i.n < len THEN ids[len - i.n] ELSE -2)
         [] i.op = "Call" ->
               Cut(ids, 2) \o <<-1>> \o BodyAt(ip).captured \o <<BodyAt(ip).in_>>
         [] i.op = "Return" ->
               IF ids = <<>> THEN ids ELSE Append(Cut(ids, 2), Last(ids))
         [] i.op = "Primitive" -> Append(Cut(ids, 1), CreatedAt(address))
         [] OTHER -> ids

\* The positions in the runtime stack of the return addresses of the calls
\* in progress, after 0 for the main body; len is the length of the stack
\* before the instruction i.
ShadowFrames(frames, len, i) ==
    CASE i.op = "Call" -> Append(frames, len - 1)
      [] i.op = "Return" -> Cut(frames, 1)
      [] OTHER -> frames

MainFiber == children[1].fiber

\* Mehl::Run up to `Vm::new(byte_code, ambients)`.
InitPipeline ==
    /\ \E asts \in Programs, order \in DropOrders, table \in Tables :
          build = Build(asts, order, table)
    /\ VmIs(IF build.emitter.error THEN NoVm
            ELSE Vm_new(build.emitter.out, RunAmbients))
    /\ last_call = [op |-> "new", channel |-> 0, message |-> unit]
    /\ shadow = [ids |-> <<build.lir.in_>>, frames |-> <<0>>, steps |-> 0]
    /\ pass = NoPass
    /\ host_ambients = RunAmbients

\* Vm::run(1) while the program runs.
RunStep ==
    /\ crash = ""
    /\ status = VmRunning
    /\ shadow.steps < MaxSteps
    /\ VmBecomes(vm_run(Vm, 1, 1))
    /\ last_call' = [op |-> "run", channel |-> 0, message |-> unit]
    /\ LET parsed == parse(MainFiber.byte_code, MainFiber.ip)
           ran == children'[1].fiber
       IN shadow' =
             IF ~parsed.ok \/ MainFiber.status.t # "Running" \/ ran.status.t # "Running"
             THEN [shadow EXCEPT !.steps = @ + 1]
             ELSE [ids |-> ShadowIds(shadow.ids, parsed.instruction,
                                     MainFiber.ip, ran.ip),
                   frames |-> ShadowFrames(shadow.frames, Len(MainFiber.stack),
                                           parsed.instruction),
                   steps |-> shadow.steps + 1]
    /\ UNCHANGED <<build, pass, host_ambients>>

NextPipeline == RunStep

SpecPipeline == InitPipeline /\ [][NextPipeline]_vars

(***************************************************************************)
(* The passes of the HIR optimiser at work on the blocks that              *)
(* compile_to_hir builds: on the block of a whole program, and on a block  *)
(* nested in it, which the passes reach through their helpers.  scope is   *)
(* the set of the ids of the enclosing blocks that the block may name.     *)
(***************************************************************************)
PassPrograms ==
    {
      \* (1, 2)
      <<AstList(<< <<AstInt(1)>>, <<AstInt(2)>> >>)>>,
      \* (1, 1)
      <<AstList(<< <<AstInt(1)>>, <<AstInt(1)>> >>)>>,
      \* [magic]
      <<AstCode(<<Magic>>)>>,
      \* (:panic, 5) magic
      <<AstList(<< <<AstSymbol(SymPanic)>>, <<AstInt(5)>> >>), Magic>>,
      \* 5 [(:add, .) magic]
      <<AstInt(5), AstCode(<<AstList(<< <<AstSymbol(SymAdd)>>, <<Dot>> >>), Magic>>)>>,
      \* {1, "a", 1, "b"}
      <<AstMap(<< << <<AstInt(1)>>, <<AstString(<<97>>)>> >>,
                  << <<AstInt(1)>>, <<AstString(<<98>>)>> >> >>)>>,
      \* 42 [42]
      <<AstInt(42), AstCode(<<AstInt(42)>>)>>,
      \* 1 [(., 2)] 3
      <<AstInt(1), AstCode(<<AstList(<< <<Dot>>, <<AstInt(2)>> >>)>>), AstInt(3)>>,
      \* (:add, (1, 2)) magic
      <<AstList(<< <<AstSymbol(SymAdd)>>,
                   <<AstList(<< <<AstInt(1)>>, <<AstInt(2)>> >>)>> >>), Magic>>,
      \* [.] => id 7 id
      <<AstCode(<<Dot>>), AstFun("id"), AstInt(7), AstName("id")>>,
      \* [42] => answer 7 answer
      <<AstCode(<<AstInt(42)>>), AstFun("answer"), AstInt(7), AstName("answer")>>,
      \* [42] => answer 7 answer 5
      <<AstCode(<<AstInt(42)>>), AstFun("answer"), AstInt(7), AstName("answer"),
        AstInt(5)>>,
      \* [.] => id [7 id]
      <<AstCode(<<Dot>>), AstFun("id"), AstCode(<<AstInt(7), AstName("id")>>)>>,
      \* [.] => id 7 id 5
      <<AstCode(<<Dot>>), AstFun("id"), AstInt(7), AstName("id"), AstInt(5)>>,
      \* [(., .)] => pair 7 pair
      <<AstCode(<<AstList(<< <<Dot>>, <<Dot>> >>)>>), AstFun("pair"), AstInt(7),
        AstName("pair")>>,
      \* (:add, (1, "a")) magic
      <<AstList(<< <<AstSymbol(SymAdd)>>,
                   <<AstList(<< <<AstInt(1)>>, <<AstString(<<97>>)>> >>)>> >>),
        Magic>>,
      \* (:add, 5) magic
      <<AstList(<< <<AstSymbol(SymAdd)>>, <<AstInt(5)>> >>), Magic>>,
      \* 1 "a" 1
      <<AstInt(1), AstString(<<97>>), AstInt(1)>>,
      \* [3 "a" (., 4)] 5
      <<AstCode(<<AstInt(3), AstString(<<97>>),
                  AstList(<< <<Dot>>, <<AstInt(4)>> >>)>>), AstInt(5)>>,
      \* (:add, (1, 2)) magic 5
      <<AstList(<< <<AstSymbol(SymAdd)>>,
                   <<AstList(<< <<AstInt(1)>>, <<AstInt(2)>> >>)>> >>), Magic,
        AstInt(5)>>
    }

TopBlocks == {compile_to_hir(asts).code : asts \in PassPrograms}

\* The blocks nested in a block, each with the ids it may name.
NestedOf(code) ==
    {[code |-> code.statements[k].code,
      scope |-> code.in_..(code.in_ + k - 1)] :
        k \in {j \in 1..Len(code.statements) : code.statements[j].t = "Code"}}

Blocks ==
    {[code |-> code, scope |-> {}] : code \in TopBlocks}
        \cup UNION {NestedOf(code) : code \in TopBlocks}

\* The longest range that a call of replace_range replaces here.
MaxLength == 2

\* The statements put in the place of a range that starts at start.
Replacements(start) ==
    {<<>>, <<HirInt(9)>>, <<HirInt(9), HirList(<<start>>)>>}

\* The ids a replacement of a reference may name: any id up to the one
\* after start.
Targets(block, start) == block.scope \cup (block.code.in_..(start + 1))

\* The maps from some ids of the range to targets.
Remaps(block, start, length) ==
    UNION {[ids -> Targets(block, start)] :
              ids \in SUBSET (start..(start + length - 1))}

\* No Vm exists while the compiler is at work.
Compiling == [NoVm EXCEPT !.crash = ""]

InitHir ==
    /\ \E block \in Blocks :
          pass = [op |-> "block", before |-> block.code, scope |-> block.scope]
    /\ VmIs(Compiling)
    /\ last_call = [op |-> "new", channel |-> 0, message |-> unit]
    /\ host_ambients = NoAmbients
    /\ build = NotBuilt
    /\ shadow = NoShadow

\* A call of Code::replace_range on the block.
ReplaceRange ==
    /\ pass.op = "block"
    /\ \E start \in IdsOf(pass.before) \cup {next_id(pass.before)},
          length \in 0..MaxLength, order \in DropOrders :
          /\ start + length <= next_id(pass.before)
          /\ \E replacement \in Replacements(start),
                remap \in Remaps([code |-> pass.before, scope |-> pass.scope],
                                 start, length) :
                LET result == replace_range(pass.before, start, length, replacement,
                                            remap, order)
                IN pass' = [op |-> "replace_range", before |-> pass.before,
                            scope |-> pass.scope, start |-> start,
                            length |-> length, replacement |-> replacement,
                            remap |-> remap, order |-> order,
                            ok |-> result.ok, after |-> result.code]
    /\ UNCHANGED <<status, children, external_pending_operations,
                   internal_pending_operations, external_to_internal_channel,
                   next_channel_id, channels, accepted, delivered, crash,
                   last_call, build, shadow, host_ambients>>

\* A call of Code::inline_code on the block of a program.
InlineCode ==
    /\ pass.op = "block"
    /\ pass.scope = {}
    /\ \E order \in DropOrders :
          LET result == inline_code(pass.before, order)
          IN pass' = [op |-> "inline_code", before |-> pass.before,
                      scope |-> pass.scope, order |-> order,
                      ok |-> result.ok, after |-> result.code]
    /\ UNCHANGED <<status, children, external_pending_operations,
                   internal_pending_operations, external_to_internal_channel,
                   next_channel_id, channels, accepted, delivered, crash,
                   last_call, build, shadow, host_ambients>>

\* The block that the next pass of Code::optimize works on.
Input == IF pass.op = "block" THEN pass.before ELSE pass.after

\* The pass named op follows the pass named previous in Code::optimize; it
\* runs on the block of a program as it was built, or as the pass before it
\* left it.
Follows(previous) ==
    /\ pass.scope = {}
    /\ \/ pass.op = "block"
       \/ pass.op = previous /\ pass.ok

\* A call of Code::deduplicate_statements on the block of a program.
DeduplicateStatements ==
    /\ pass.op = "block"
    /\ pass.scope = {}
    /\ \E order \in DropOrders :
          LET result == deduplicate_statements(pass.before, order)
          IN pass' = [op |-> "deduplicate_statements", before |-> pass.before,
                      scope |-> pass.scope, order |-> order,
                      ok |-> result.ok, after |-> result.code]
    /\ UNCHANGED <<status, children, external_pending_operations,
                   internal_pending_operations, external_to_internal_channel,
                   next_channel_id, channels, accepted, delivered, crash,
                   last_call, build, shadow, host_ambients>>

\* A call of Code::remove_unused_statements on the block of a program.
RemoveUnusedStatements ==
    /\ Follows("deduplicate_statements")
    /\ \E order \in DropOrders :
          LET result == remove_unused_statements(Input, order)
          IN pass' = [op |-> "remove_unused_statements", before |-> Input,
                      scope |-> pass.scope, order |-> order,
                      ok |-> result.ok, after |-> result.code]
    /\ UNCHANGED <<status, children, external_pending_operations,
                   internal_pending_operations, external_to_internal_channel,
                   next_channel_id, channels, accepted, delivered, crash,
                   last_call, build, shadow, host_ambients>>

\* A call of Code::make_primitives_concrete on the block of a program.
MakePrimitivesConcrete ==
    /\ Follows("remove_unused_statements")
    /\ \E order \in DropOrders :
          LET result == make_primitives_concrete(Input, order)
          IN pass' = [op |-> "make_primitives_concrete", before |-> Input,
                      scope |-> pass.scope, order |-> order,
                      ok |-> result.ok, after |-> result.code]
    /\ UNCHANGED <<status, children, external_pending_operations,
                   internal_pending_operations, external_to_internal_channel,
                   next_channel_id, channels, accepted, delivered, crash,
                   last_call, build, shadow, host_ambients>>

\* A call of Code::run_pure_primitives on the block of a program.
RunPurePrimitives ==
    /\ Follows("make_primitives_concrete")
    /\ \E order \in DropOrders :
          LET result == run_pure_primitives(Input)
          IN pass' = [op |-> "run_pure_primitives", before |-> Input,
                      scope |-> pass.scope, order |-> order,
                      ok |-> result.ok, after |-> result.code]
    /\ UNCHANGED <<status, children, external_pending_operations,
                   internal_pending_operations, external_to_internal_channel,
                   next_channel_id, channels, accepted, delivered, crash,
                   last_call, build, shadow, host_ambients>>

\* A call of Code::compile_to_lir on the block.
CompileToLir ==
    /\ pass.op = "block"
    /\ \E order \in DropOrders :
          pass' = [op |-> "compile_to_lir", before |-> pass.before,
                   scope |-> pass.scope, order |-> order, ok |-> TRUE,
                   after |-> compile_to_lir(pass.before, order)]
    /\ UNCHANGED <<status, children, external_pending_operations,
                   internal_pending_operations, external_to_internal_channel,
                   next_channel_id, channels, accepted, delivered, crash,
                   last_call, build, shadow, host_ambients>>

\* A call of OptimizeLir::optimize on the closure that compile_to_lir made of
\* the block.
OptimizeLir ==
    /\ pass.op = "compile_to_lir"
    /\ pass' = [op |-> "lir_optimize", hir |-> pass.before, scope |-> pass.scope,
                order |-> pass.order, before |-> pass.after,
                after |-> closure_optimize(pass.after)]
    /\ UNCHANGED <<status, children, external_pending_operations,
                   internal_pending_operations, external_to_internal_channel,
                   next_channel_id, channels, accepted, delivered, crash,
                   last_call, build, shadow, host_ambients>>

NextHir ==
    \/ ReplaceRange
    \/ InlineCode
    \/ DeduplicateStatements
    \/ RemoveUnusedStatements
    \/ MakePrimitivesConcrete
    \/ RunPurePrimitives
    \/ CompileToLir
    \/ OptimizeLir

SpecHir == InitHir /\ [][NextHir]_vars

(***************************************************************************)
(* One instruction written by the emitter and read back by                 *)
(* Instruction::parse, as Fiber::run reads it at ip; and the same for the  *)
(* bytes of Instruction::to_bytes.  The instructions are those the types   *)
(* of byte_code.rs allow and the compiler can build: the operand of a Near *)
(* instruction is a u8, a CreateSmallString holds fewer than 256 bytes, a  *)
(* symbol holds no zero byte.                                              *)
(***************************************************************************)
\* The longest string of an instruction here.
MaxText == 257

\* The string of n letters a.
Filled(n) == [k \in 1..n |-> 97]

Texts == {Filled(n) : n \in {0, 1, 2, 255, 256, MaxText}} \cup {<<104, 105>>}

Operands == {0, 1, 255, 256, 65536}

Instructions ==
    {Instr(op, n, <<>>, "None") :
        op \in {"CreateMap", "CreateList", "CreateClosure", "Dup", "Drop",
                "PushAddress", "PushFromStack", "Jump"},
        n \in Operands}
    \cup {CreateInt(n) : n \in {-256, -1, 0, 1, 300}}
    \cup {Instr(op, n, <<>>, "None") :
             op \in {"DupNear", "DropNear", "PopMultipleBelowTop",
                     "PushNearFromStack"},
             n \in {0, 1, 255}}
    \cup {CreateString(s) : s \in Texts}
    \cup {CreateSmallString(s) : s \in {t \in Texts : Len(t) < 256}}
    \cup {CreateSymbol(s) : s \in {t \in Texts : Len(t) < 3} \cup {SymAdd}}
    \cup {Pop, Call, Return}
    \cup {Primitive(kind) : kind \in {"None"} \cup Range(PrimitiveKind_all)}

InitCodec ==
    /\ \E i \in Instructions : pass = [op |-> "instruction", instruction |-> i]
    /\ VmIs(Compiling)
    /\ last_call = [op |-> "new", channel |-> 0, message |-> unit]
    /\ host_ambients = NoAmbients
    /\ build = NotBuilt
    /\ shadow = NoShadow

\* ByteCodeExt::push_instruction on an empty byte code, then
\* Instruction::parse on what it wrote; ok is FALSE when push_instruction
\* has no arm for the instruction.
PushInstruction ==
    /\ pass.op = "instruction"
    /\ LET bytes == push_instruction_bytes(pass.instruction)
       IN pass' = [op |-> "push_instruction", instruction |-> pass.instruction,
                   ok |-> push_instruction_has_arm(pass.instruction),
                   bytes |-> bytes, parsed |-> parse(bytes, 0)]
    /\ UNCHANGED <<status, children, external_pending_operations,
                   internal_pending_operations, external_to_internal_channel,
                   next_channel_id, channels, accepted, delivered, crash,
                   last_call, build, shadow, host_ambients>>

\* Instruction::to_bytes, then Instruction::parse on the bytes.
ToBytes ==
    /\ pass.op = "instruction"
    /\ LET bytes == to_bytes(pass.instruction)
       IN pass' = [op |-> "to_bytes", instruction |-> pass.instruction,
                   ok |-> TRUE, bytes |-> bytes, parsed |-> parse(bytes, 0)]
    /\ UNCHANGED <<status, children, external_pending_operations,
                   internal_pending_operations, external_to_internal_channel,
                   next_channel_id, channels, accepted, delivered, crash,
                   last_call, build, shadow, host_ambients>>

NextCodec == PushInstruction \/ ToBytes

SpecCodec == InitCodec /\ [][NextCodec]_vars

(***************************************************************************)
(* Fiber::import of a Value into the heap of a fiber, and Fiber::export of *)
(* the pointer that import returned.  The fiber is one that Fiber::new has *)
(* made, so its heap already holds the objects of its dot.                 *)
(***************************************************************************)
Leaves ==
    {IntV(0), IntV(1), StringV(<<97>>), unit, SymbolV(SymAdd), ChannelSendEndV(0),
     ChannelReceiveEndV(1)}

Lists == {ListV(<<>>)} \cup {ListV(<<a>>) : a \in Leaves}
             \cup {ListV(<<a, b>>) : a, b \in Leaves}

\* The Values imported: leaves, Lists of leaves, and Maps, Closures and Lists
\* with Lists in them.  The keys of a Map differ.
Values ==
    Leaves \cup Lists
    \cup {ListV(<<ListV(<<a>>), b, ListV(<<a, b>>)>>) : a, b \in {IntV(1), unit}}
    \cup {MapV(<< <<k, v>> >>) : k \in Leaves, v \in {IntV(1), ListV(<<unit>>)}}
    \cup {MapV(<< <<IntV(0), v>>, <<ListV(<<IntV(0)>>), w>> >>) :
             v, w \in {IntV(1), ListV(<<unit>>)}}
    \cup {ClosureV(captured, 7) :
             captured \in {<<>>, <<IntV(1)>>, <<ListV(<<IntV(1)>>), IntV(1)>>}}

Dots == {unit, ListV(<<IntV(1), StringV(<<97>>)>>)}

InitHeap ==
    /\ \E value \in Values, dot \in Dots :
          pass = [op |-> "value", value |-> value,
                  fiber |-> Fiber_new(<<>>, <<>>, dot)]
    /\ VmIs(Compiling)
    /\ last_call = [op |-> "new", channel |-> 0, message |-> unit]
    /\ host_ambients = NoAmbients
    /\ build = NotBuilt
    /\ shadow = NoShadow

\* Fiber::import of the value.
Import ==
    /\ pass.op = "value"
    /\ LET imported == fiber_import(pass.fiber, pass.value)
       IN pass' = [op |-> "import", value |-> pass.value, before |-> pass.fiber,
                   fiber |-> imported.f, pointer |-> imported.r]
    /\ UNCHANGED <<status, children, external_pending_operations,
                   internal_pending_operations, external_to_internal_channel,
                   next_channel_id, channels, accepted, delivered, crash,
                   last_call, build, shadow, host_ambients>>

\* Fiber::export of the pointer that import returned.
Export ==
    /\ pass.op = "import"
    /\ LET exported == export(pass.fiber, pass.pointer)
       IN pass' = [op |-> "export", value |-> pass.value, before |-> pass.before,
                   imported |-> pass.fiber, pointer |-> pass.pointer,
                   fiber |-> exported.f, result |-> exported.r]
    /\ UNCHANGED <<status, children, external_pending_operations,
                   internal_pending_operations, external_to_internal_channel,
                   next_channel_id, channels, accepted, delivered, crash,
                   last_call, build, shadow, host_ambients>>

NextHeap == Import \/ Export

SpecHeap == InitHeap /\ [][NextHeap]_vars

(***************************************************************************)
(* Fiber::run on a fiber of its own, made by Fiber::new from a short byte  *)
(* code with a Primitive in it: the Primitive is the last instruction, or  *)
(* an instruction follows it, or its argument is made by the instruction   *)
(* in front of it.  In the first two cases the argument is the dot of the  *)
(* fiber.                                                                  *)
(***************************************************************************)
\* The most instructions one call of Fiber::run is given here.
MaxRun == 2

\* The arguments of the primitives: the Values above, and those that the
\* primitives take without a panic.
Arguments ==
    Values
    \cup {ListV(<<ListV(<<IntV(1)>>), IntV(n)>>) : n \in {-1, 0, 1}}
    \cup {ListV(<<SymbolV(name), arg>>) :
             name \in {SymAdd, SymReceive, <<120>>},
             arg \in {IntV(1), ListV(<<IntV(1), IntV(1)>>), ChannelReceiveEndV(1)}}
    \cup {SymbolV(SymStdout)}

FiberCode(kind, shape) ==
    CASE shape = "last" -> <<Primitive(kind)>>
      [] shape = "followed" -> <<Primitive(kind), CreateInt(7)>>
      [] shape = "made" -> <<CreateInt(5), Primitive(kind)>>

InitFiber ==
    /\ \E kind \in {"None"} \cup Range(PrimitiveKind_all), dot \in Arguments,
          shape \in {"last", "followed", "made"} :
          pass = [op |-> "fiber",
                  fiber |-> Fiber_new(Assemble(FiberCode(kind, shape)), RunAmbients,
                                      dot)]
    /\ VmIs(Compiling)
    /\ last_call = [op |-> "new", channel |-> 0, message |-> unit]
    /\ host_ambients = NoAmbients
    /\ build = NotBuilt
    /\ shadow = NoShadow

\* Fiber::run(n) on a fiber that is Running.
RunFiber ==
    /\ pass.op \in {"fiber", "run"}
    /\ pass.fiber.status.t = "Running"
    /\ \E n \in 1..MaxRun :
          pass' = [op |-> "run", before |-> pass.fiber, n |-> n,
                   fiber |-> fiber_run(pass.fiber, n)]
    /\ UNCHANGED <<status, children, external_pending_operations,
                   internal_pending_operations, external_to_internal_channel,
                   next_channel_id, channels, accepted, delivered, crash,
                   last_call, build, shadow, host_ambients>>

NextFiber == RunFiber

SpecFiber == InitFiber /\ [][NextFiber]_vars

(***************************************************************************)
(* Vm::run on a Vm with several children.  Vm::new makes one child, and no *)
(* function of vm.rs adds another; the Vms here are Vms as the fields of   *)
(* the struct allow them, each child a fiber in one of the statuses of     *)
(* FiberStatus.                                                            *)
(***************************************************************************)
\* The most children of a Vm here.
MaxChildren == 3

\* The statuses of a child.
ChildStatuses ==
    {Running, Done(IntV(1)), Panicked(IntV(2)), CreatingChannel(1),
     Sending(0, IntV(3)), Receiving(0)}

\* The byte code of every child.
ChildCode == Assemble(<<CreateInt(1), CreateInt(2), PopMultipleBelowTop(2)>>)

\* A Vm with the children of the statuses given.
VmWithChildren(statuses) ==
    [Vm_new(ChildCode, RunAmbients) EXCEPT
       !.children = [c \in 1..Len(statuses) |->
                        [priority |-> 1,
                         fiber |-> [Fiber_new(ChildCode, <<>>, unit) EXCEPT
                                      !.status = statuses[c]]]]]

InitChildren ==
    /\ \E n \in 1..MaxChildren :
          \E statuses \in [1..n -> ChildStatuses] :
             VmIs(VmWithChildren(statuses))
    /\ last_call = [op |-> "new", channel |-> 0, message |-> unit]
    /\ host_ambients = NoAmbients
    /\ build = NotBuilt
    /\ shadow = NoShadow
    /\ pass = NoPass

\* A call of Vm::run(1); pass keeps the child that was run and the status
\* it had.
RunChild ==
    /\ crash = ""
    /\ pass = NoPass
    /\ \E chosen \in (IF RunningChildren(Vm) = <<>> THEN {0}
                      ELSE 1..Len(RunningChildren(Vm))) :
          /\ VmBecomes(vm_run(Vm, 1, chosen))
          /\ pass' = IF chosen = 0 THEN [op |-> "no child"]
                     ELSE [op |-> "child", child |-> chosen,
                           status |-> children[chosen].fiber.status]
    /\ last_call' = [op |-> "run", channel |-> 0, message |-> unit]
    /\ UNCHANGED <<build, shadow, host_ambients>>

NextChildren == RunChild

SpecChildren == InitChildren /\ [][NextChildren]_vars

(***************************************************************************)
(* Vm::run on a Vm whose children share one internal channel: each child   *)
(* is a fiber that sends a number to the channel or receives from it, the  *)
(* end of the channel being the dot of the fiber.  The channel is channel  *)
(* 0 of the Vm, as the CreatingChannel arm of Vm::run inserts it.          *)
(***************************************************************************)
ChannelRoles == {"send 3", "send 4", "receive"}

\* The fiber of a role: the primitive first, and instructions behind it.
RoleFiber(role) ==
    CASE role = "send 3" ->
            Fiber_new(Assemble(<<Primitive("Send"), CreateInt(7)>>), <<>>,
                      ListV(<<ChannelSendEndV(0), IntV(3)>>))
      [] role = "send 4" ->
            Fiber_new(Assemble(<<Primitive("Send"), CreateInt(7)>>), <<>>,
                      ListV(<<ChannelSendEndV(0), IntV(4)>>))
      [] role = "receive" ->
            Fiber_new(Assemble(<<Primitive("Receive"), CreateInt(8), Pop>>), <<>>,
                      ChannelReceiveEndV(0))

\* A Vm with the children of the roles given and the channel they share.
VmWithChannel(capacity, roles) ==
    [Vm_new(ChildCode, <<>>) EXCEPT
       !.children = [c \in 1..Len(roles) |->
                        [priority |-> 1, fiber |-> RoleFiber(roles[c])]],
       !.next_channel_id = 1,
       !.channels = (0 :> Internal(capacity, <<>>)),
       !.accepted = (0 :> <<>>),
       !.delivered = (0 :> <<>>)]

InitChannel ==
    /\ \E capacity \in 0..MaxCapacity, n \in 1..MaxChildren :
          \E roles \in [1..n -> ChannelRoles] :
             VmIs(VmWithChannel(capacity, roles))
    /\ last_call = [op |-> "new", channel |-> 0, message |-> unit]
    /\ host_ambients = NoAmbients
    /\ build = NotBuilt
    /\ shadow = NoShadow
    /\ pass = NoPass

NextChannel == VmRun

SpecChannel == InitChannel /\ [][NextChannel]_vars

(***************************************************************************)
(* Vms for hosts other than main.rs: the two ambients are ends of channels *)
(* with ids of the host's choice, of one channel or of two.                *)
(***************************************************************************)
HostChannelIds == {0, 2, 5}

AmbientSets ==
    UNION {{<<<<SymStdout, ChannelSendEndV(out)>>, <<SymStdin, ChannelReceiveEndV(in_)>>>>,
            <<<<SymStdin, ChannelReceiveEndV(in_)>>, <<SymStdout, ChannelSendEndV(out)>>>>} :
              out \in HostChannelIds, in_ \in HostChannelIds}

\* The programs that use an ambient.
AmbientOpSequences ==
    {ops \in OpSequences : \E k \in 1..Len(ops) : ops[k] \in {"XS", "XR"}}

InitAmbients ==
    /\ host_ambients \in AmbientSets
    /\ \E capacity \in 0..MaxCapacity, ops \in AmbientOpSequences,
          end \in {"done", "panic"} :
          VmIs(Vm_new(VmProgram(capacity, ops, end), host_ambients))
    /\ last_call = [op |-> "new", channel |-> 0, message |-> unit]
    /\ build = NotBuilt
    /\ shadow = NoShadow
    /\ pass = NoPass

NextAmbients == VmRun \/ ResolveSend \/ ResolveReceive

SpecAmbients == InitAmbients /\ [][NextAmbients]_vars

(***************************************************************************)
(* A Vm of main.rs with several children: fibers at a Send or a Receive on *)
(* the channel that the Vm has created after the two of the host, or on an *)
(* end that the host gave.                                                 *)
(***************************************************************************)
HostedRoles == {"send", "receive", "send to host", "receive from host"}

\* The fiber of a role in the Vm: the primitive first, an instruction behind.
HostedFiber(vm, role) ==
    CASE role = "send" ->
            Fiber_new(Assemble(<<Primitive("Send"), CreateInt(7)>>), <<>>,
                      ListV(<<ChannelSendEndV(vm.next_channel_id), IntV(3)>>))
      [] role = "receive" ->
            Fiber_new(Assemble(<<Primitive("Receive"), CreateInt(8), Pop>>), <<>>,
                      ChannelReceiveEndV(vm.next_channel_id))
      [] role = "send to host" ->
            Fiber_new(Assemble(<<Primitive("Send"), CreateInt(7)>>), <<>>,
                      ListV(<<vm_import(vm, ChannelSendEndV(0)).r, IntV(3)>>))
      [] role = "receive from host" ->
            Fiber_new(Assemble(<<Primitive("Receive"), CreateInt(8), Pop>>), <<>>,
                      vm_import(vm, ChannelReceiveEndV(1)).r)

VmWithHost(capacity, roles, ambients) ==
    LET vm == Vm_new(ChildCode, ambients)
        id == vm.next_channel_id
    IN [vm EXCEPT
          !.children = [c \in 1..Len(roles) |->
                           [priority |-> 1, fiber |-> HostedFiber(vm, roles[c])]],
          !.next_channel_id = id + 1,
          !.channels = (id :> Internal(capacity, <<>>)) @@ @,
          !.accepted = (id :> <<>>) @@ @,
          !.delivered = (id :> <<>>) @@ @]

\* The children of the Vm: one fiber, two fibers, and three fibers of which
\* two are at the same operation.
HostedChildren ==
    {<<role>> : role \in HostedRoles}
    \cup {<<first, second>> : first \in HostedRoles, second \in HostedRoles}
    \cup {<<twin, twin, third>> : twin \in HostedRoles, third \in HostedRoles}

InitHosted ==
    /\ host_ambients \in MainAmbients
    /\ \E capacity \in 0..MaxCapacity, roles \in HostedChildren :
          VmIs(VmWithHost(capacity, roles, host_ambients))
    /\ last_call = [op |-> "new", channel |-> 0, message |-> unit]
    /\ build = NotBuilt
    /\ shadow = NoShadow
    /\ pass = NoPass

NextHosted == VmRun \/ ResolveSend \/ ResolveReceive

SpecHosted == InitHosted /\ [][NextHosted]_vars

(***************************************************************************)
(* main.rs, Mehl::Run, from `hir.compile_to_lir()` on, for a block that a  *)
(* pass of the optimiser has left: the block is lowered, emitted with the  *)
(* opcodes that Instruction::parse reads, and run by `vm.run(30)` in a     *)
(* loop until the Vm is Done or Panicked.  The programs here perform no    *)
(* channel operation, so the loop has no operation to resolve.             *)
(***************************************************************************)
\* The most turns of the loop of Mehl::Run that are followed.
MaxTurns == 2

RECURSIVE run_loop(_, _)
run_loop(vm, turns) ==
    IF turns = 0 \/ vm.crash # "" \/ vm.status.t \in {"Done", "Panicked"} THEN vm
    ELSE run_loop(vm_run(vm, MainNumInstructions, 1), turns - 1)

\* How the process ends: with a panic in the compiler, with a crash of the
\* interpreter, or with the status that the loop of Mehl::Run finds (Running
\* when the loop goes on beyond MaxTurns).
Outcome(code, order) ==
    LET lir == closure_optimize(compile_to_lir(code, order))
        emitter == compile_to_byte_code(lir, "to_bytes")
        vm == run_loop(Vm_new(emitter.out, RunAmbients), MaxTurns)
    IN IF emitter.error THEN [t |-> "CompilerPanic"]
       ELSE IF vm.crash # "" THEN [t |-> "Crash", crash |-> vm.crash]
       ELSE vm.status

(***************************************************************************)
(* Mehl::Run on programs that bind a value with `->`, up to the HIR: the   *)
(* program is compiled to HIR and the HIR is optimised.  Outcome runs the  *)
(* rest of Mehl::Run on a block; here it is asked for the block as         *)
(* compile_to_hir leaves it and for the block that Code::optimize makes of *)
(* it, which is the one Mehl::Run goes on with.                            *)
(***************************************************************************)
\* The values bound.
LetValues ==
    {<<AstInt(7)>>, <<AstString(<<104, 105>>)>>, <<AstSymbol(<<97>>)>>,
     <<AstList(<< <<AstInt(1)>>, <<AstInt(2)>> >>)>>,
     <<AstInt(7), AstList(<< <<Dot>>, <<Dot>> >>)>>}

\* What stands in front of a later use of the name.
LetArguments == {AstInt(1), AstString(<<97>>)}

LetShapes ==
    {"bound", "named", "named with argument", "named twice", "named in block"}

\* value -> x, and the uses of x behind it.
LetProgram(value, shape, argument) ==
    value \o <<AstLet("x")>> \o
    CASE shape = "bound" -> <<>>
      [] shape = "named" -> <<AstName("x")>>
      [] shape = "named with argument" -> <<argument, AstName("x")>>
      [] shape = "named twice" -> <<argument, AstName("x"), AstName("x")>>
      [] shape = "named in block" ->
            <<AstCode(<<AstName("x")>>), AstFun("f"), argument, AstName("f")>>

InitLet ==
    /\ \E value \in LetValues, shape \in LetShapes, argument \in LetArguments,
          order \in DropOrders :
          pass = [op |-> "program", value |-> value, shape |-> shape,
                  asts |-> LetProgram(value, shape, argument), order |-> order]
    /\ VmIs(Compiling)
    /\ last_call = [op |-> "new", channel |-> 0, message |-> unit]
    /\ host_ambients = NoAmbients
    /\ build = NotBuilt
    /\ shadow = NoShadow

\* Mehl::Run up to `hir.optimize()`: ok is FALSE when the compiler has
\* panicked, in compile_to_hir or in a pass of the optimiser.
CompileProgram ==
    /\ pass.op = "program"
    /\ \E hir \in {compile_to_hir(pass.asts)} :
       \E optimized \in {hir_optimize(hir.code, pass.order)} :
          pass' = [op |-> "compiled", value |-> pass.value, shape |-> pass.shape,
                   asts |-> pass.asts, order |-> pass.order,
                   before |-> hir.code, ok |-> hir.ok /\ optimized.ok,
                   after |-> optimized.code]
    /\ UNCHANGED <<status, children, external_pending_operations,
                   internal_pending_operations, external_to_internal_channel,
                   next_channel_id, channels, accepted, delivered, crash,
                   last_call, build, shadow, host_ambients>>

NextLet == CompileProgram

SpecLet == InitLet /\ [][NextLet]_vars

(***************************************************************************)
(* Properties of the Vm.                                                   *)
(***************************************************************************)
IsPrefix(s, t) == Len(s) <= Len(t) /\ SubSeq(t, 1, Len(s)) = s

FiberOf(c) == children[c].fiber

Finished(c) == FiberOf(c).status.t \in {"Done", "Panicked"}

\* C1: once the fiber has finished with Done(v) or Panicked(v), the status
\* of the Vm is Done(v) or Panicked(v), after however many calls of Vm::run.
C1_FinishedVmKeepsItsStatus ==
    crash = "" =>
        \A c \in 1..Len(children) :
            Finished(c) =>
                /\ status.t = FiberOf(c).status.t
                /\ status.value = FiberOf(c).status.value

\* The Vm has just taken over the result of its fiber.
C1_VmFinished ==
    /\ crash = ""
    /\ Finished(1)
    /\ status.t = FiberOf(1).status.t

\* C2: on every internal channel the messages handed to receivers are a
\* prefix of the messages accepted from senders, in the order of acceptance.
C2_DeliveredIsPrefixOfAccepted ==
    \A id \in DOMAIN delivered : IsPrefix(delivered[id], accepted[id])

\* Two different messages have been delivered on one channel.
C2_TwoDelivered ==
    \E id \in DOMAIN delivered :
        /\ Len(delivered[id]) = 2
        /\ delivered[id][1] # delivered[id][2]
        /\ crash = ""

\* Child c is blocked in a Send or Receive on an end of an ambient channel.
BlockedOnExternal(c) ==
    /\ FiberOf(c).status.t \in {"Sending", "Receiving"}
    /\ FiberOf(c).status.channel \in DOMAIN channels
    /\ channels[FiberOf(c).status.channel].kind = "External"

\* The operation the embedder sees for the blocked child c.
OperationOf(c) ==
    IF FiberOf(c).status.t = "Sending"
    THEN Send(channels[FiberOf(c).status.channel].id, FiberOf(c).status.message)
    ELSE Receive(channels[FiberOf(c).status.channel].id)

Occurrences(seq, x) == Cardinality({j \in 1..Len(seq) : seq[j] = x})

\* The object on top of the stack of child c, after the step.
TopObjectAfter(c) ==
    FiberOf(c)'.heap[Last(FiberOf(c)'.stack).a].data

\* A step in which child c blocks on an ambient channel end puts exactly one
\* operation into pending_operations().
C3Appears(c) ==
    (FiberOf(c).status.t = "Running" /\ BlockedOnExternal(c)')
        => external_pending_operations' =
               Append(external_pending_operations, OperationOf(c)')

\* While child c is blocked, a call of Vm::run leaves the operation and the
\* fiber alone.
C3Stays(c) ==
    (BlockedOnExternal(c) /\ last_call'.op = "run")
        => /\ external_pending_operations' = external_pending_operations
           /\ children' = children
           /\ Occurrences(external_pending_operations, OperationOf(c)) = 1

\* A call of resolve_send or resolve_receive for the operation of child c
\* removes exactly that operation and wakes the fiber with the unit symbol
\* (resp. the message) pushed.
C3Resolves(c) ==
    (BlockedOnExternal(c) /\ last_call'.op \in {"resolve_send", "resolve_receive"}
        /\ crash' = "")
        => /\ external_pending_operations' =
                  RemoveAt(external_pending_operations,
                           OperationIndex(Vm, OperationOf(c)))
           /\ FiberOf(c)'.status = Running
           /\ FiberOf(c)'.stack =
                  Append(FiberOf(c).stack, Last(FiberOf(c)'.stack))
           /\ Last(FiberOf(c)'.stack).a \notin DOMAIN FiberOf(c).heap
           /\ TopObjectAfter(c) =
                  (IF last_call'.op = "resolve_send" THEN unit ELSE last_call'.message)
           /\ status' = VmRunning

\* C3: a Send or Receive on an ambient channel end shows as exactly one
\* pending operation, which stays across calls of Vm::run until the embedder
\* resolves it; resolving removes it, wakes the fiber with unit (resp. the
\* message) pushed, and sets the status of the Vm to Running.
C3_ExternalOperationPendingUntilResolved ==
    [][\A c \in 1..Len(children) : C3Appears(c) /\ C3Stays(c) /\ C3Resolves(c)]_vars

\* An external receive has been resolved after the operation had stayed
\* pending across a call of Vm::run.
C3_Resolved ==
    /\ last_call.op = "resolve_receive"
    /\ crash = ""
    /\ status = VmRunning
    /\ FiberOf(1).status = Running


(***************************************************************************)
(* Properties of compiled programs (SpecPipeline).  They are stated for    *)
(* the builds whose emitter writes the opcode table that the parser of the *)
(* fiber reads, so that none of them rests on the two tables differing.    *)
(***************************************************************************)
Built == build # NotBuilt /\ ~build.emitter.error /\ build.table = "to_bytes"

AtEndOfCalledBody ==
    /\ Built
    /\ crash = ""
    /\ MainFiber.status.t = "Running"
    /\ Len(shadow.frames) > 1
    /\ \E k \in 1..Len(build.emitter.bodies) :
          /\ build.emitter.bodies[k].start # 0
          /\ build.emitter.bodies[k].last = MainFiber.ip

\* The entry of the runtime stack that holds the return address of the call
\* in progress.
ReturnAddress == MainFiber.stack[Last(shadow.frames)]

FrameIds == SubSeq(shadow.ids, Last(shadow.frames) + 1, Len(shadow.ids))

\* The stack models the emitter had at the address.
ModelsAt(address) ==
    {build.emitter.trace[k].stack :
        k \in {j \in 1..Len(build.emitter.trace) :
                  build.emitter.trace[j].address = address}}

\* C7: where a statement begins, the stack model of the emitter is the
\* sequence of the ids of the runtime stack of the current frame.
C7_StackModelIsRuntimeStack ==
    (Built /\ crash = "" /\ MainFiber.status.t = "Running")
        => \A model \in ModelsAt(MainFiber.ip) : model = FrameIds

\* The fiber has run a statement and is where the emitter has a stack model.
C7_AtStatement ==
    /\ Built
    /\ crash = ""
    /\ MainFiber.status.t = "Running"
    /\ shadow.steps > 0
    /\ ModelsAt(MainFiber.ip) # {}
(***************************************************************************)
(* Properties of the HIR passes.                                           *)
(***************************************************************************)
RECURSIVE WellFormedIn(_, _, _)
\* A block is well-formed among the ids of scope: each statement names only
\* ids below its own that are the in or a statement of its block or of an
\* enclosing one, and out names the in or a statement of the block, or one
\* of outs.
WellFormedIn(code, scope, outs) ==
    /\ code.out \in {code.in_} \cup IdsOf(code) \cup outs
    /\ \A k \in 1..Len(code.statements) :
          LET id == code.in_ + k
              statement == code.statements[k]
              visible == scope \cup (code.in_..(id - 1))
          IN IF statement.t = "Code"
             THEN WellFormedIn(statement.code, visible, {})
             ELSE \A used \in collect_used_ids(statement) :
                     used < id /\ used \in visible

Replaced == pass.op = "replace_range"

RangeEnd == pass.start + pass.length

NewRangeEnd == pass.start + Len(pass.replacement)

\* The statements put in the place of the range are well-formed where they
\* are put.
ReplacementWellFormed ==
    WellFormedIn([in_ |-> pass.before.in_, out |-> pass.before.in_,
                  statements |->
                      SubSeq(pass.before.statements, 1,
                             pass.start - pass.before.in_ - 1)
                      \o pass.replacement],
                 pass.scope, {})

\* Each id of the range has a replacement, which is defined before the end
\* of the range: an id of an enclosing block, the in, or a statement of the
\* block that ends up before the end of the replacement.
RemapInScope ==
    /\ DOMAIN pass.remap = pass.start..(RangeEnd - 1)
    /\ \A id \in DOMAIN pass.remap :
          pass.remap[id] \in pass.scope \cup (pass.before.in_..(NewRangeEnd - 1))

C8_Premise ==
    /\ Replaced
    /\ WellFormedIn(pass.before, pass.scope, {})
    /\ ReplacementWellFormed
    /\ RemapInScope

AfterRange ==
    {k \in 1..Len(pass.before.statements) : pass.before.in_ + k >= RangeEnd}

RewrittenId(id) ==
    IF id < pass.start THEN id
    ELSE IF id >= RangeEnd THEN id + Len(pass.replacement) - pass.length
    ELSE pass.remap[id]

RECURSIVE RewrittenAs(_, _, _)
\* new is old with each id rewritten.  The entries of a Map are those of
\* the old one rewritten; when collapsing, entries whose keys are rewritten
\* to one id leave one entry, with the rewritten value of one of them.
RewrittenAs(old, new, collapsing) ==
    /\ new.t = old.t
    /\ CASE old.t = "Map" ->
               LET expected == {<<RewrittenId(old.map[k][1]),
                                  RewrittenId(old.map[k][2])>> :
                                   k \in 1..Len(old.map)}
                   keys == {entry[1] : entry \in expected}
               IN IF collapsing
                  THEN /\ Range(new.map) \subseteq expected
                       /\ {new.map[k][1] : k \in 1..Len(new.map)} = keys
                       /\ Len(new.map) = Cardinality(keys)
                  ELSE /\ Range(new.map) = expected
                       /\ Len(new.map) = Len(old.map)
         [] old.t = "List" ->
               /\ Len(new.list) = Len(old.list)
               /\ \A k \in 1..Len(old.list) :
                     new.list[k] = RewrittenId(old.list[k])
         [] old.t = "Code" ->
               /\ new.code.in_ = RewrittenId(old.code.in_)
               /\ new.code.out = RewrittenId(old.code.out)
               /\ Len(new.code.statements) = Len(old.code.statements)
               /\ \A k \in 1..Len(old.code.statements) :
                     RewrittenAs(old.code.statements[k], new.code.statements[k],
                                 collapsing)
         [] old.t = "Call" ->
               /\ new.fun = RewrittenId(old.fun)
               /\ new.arg = RewrittenId(old.arg)
         [] old.t = "Primitive" ->
               /\ new.kind = old.kind
               /\ new.arg = RewrittenId(old.arg)
         [] OTHER -> new = old

\* The ids that the call rewrites: those in the statements after the range
\* and the in and the out of the block.
IdsToRewrite ==
    {pass.before.in_, pass.before.out}
        \cup UNION {collect_used_ids(pass.before.statements[k]) : k \in AfterRange}

MissingFromRemap ==
    {id \in IdsToRewrite : id \in pass.start..(RangeEnd - 1)} \ DOMAIN pass.remap

\* What replace_range leaves of the block.
ReplacedAs(collapsing) ==
    LET old == pass.before.statements
        new == pass.after.statements
        start_index == pass.start - pass.before.in_ - 1
        end_index == RangeEnd - pass.before.in_ - 1
        put == Len(pass.replacement)
    IN /\ Len(new) = Len(old) - pass.length + put
       /\ \A k \in 1..start_index : new[k] = old[k]
       /\ \A k \in 1..put : new[start_index + k] = pass.replacement[k]
       /\ \A k \in 1..(Len(old) - end_index) :
             RewrittenAs(old[end_index + k], new[start_index + put + k], collapsing)
       /\ pass.after.in_ = RewrittenId(pass.before.in_)
       /\ pass.after.out = RewrittenId(pass.before.out)

\* C9 as stated: replace_range keeps the statements before start, puts the
\* replacement at start, and rewrites each id in each statement after the
\* range and in the in and out of the block; it fails if an id of the range
\* that it has to rewrite is missing from remap.
C9_ReplaceRangeRewritesEachId ==
    Replaced => /\ pass.ok <=> MissingFromRemap = {}
                /\ pass.ok => ReplacedAs(FALSE)

\* Apart from the entries of a Map whose keys are rewritten to the same id,
\* of which one is left, replace_range does what C9 says, and it fails
\* exactly when an id of the range that it has to rewrite is missing from
\* remap.
ReplaceRangeRewritesIdsUpToCollapsedEntries ==
    Replaced => /\ pass.ok <=> MissingFromRemap = {}
                /\ pass.ok => ReplacedAs(TRUE)

\* A replace_range in front of a Map with two keys that are rewritten to the
\* same id.
C9_KeysRewrittenToOneId ==
    /\ Replaced
    /\ pass.ok
    /\ \E k \in AfterRange :
          /\ pass.before.statements[k].t = "Map"
          /\ \E i, j \in 1..Len(pass.before.statements[k].map) :
                LET map == pass.before.statements[k].map
                IN /\ map[i][1] # map[j][1]
                   /\ RewrittenId(map[i][1]) = RewrittenId(map[j][1])
Inlined == pass.op = "inline_code"

\* C10: inline_code does not fail on a well-formed program, and the program
\* it makes ends, run through the rest of the pipeline, as the program
\* itself does: in the same Done(v) or the same Panicked(v).
C10_InlinedProgramEndsTheSame ==
    (Inlined /\ WellFormedIn(pass.before, {}, {})) =>
        /\ pass.ok
        /\ Outcome(pass.after, pass.order) = Outcome(pass.before, pass.order)

\* inline_code has put the statements of a block in the place of a Call.
C10_CallInlined ==
    /\ Inlined
    /\ WellFormedIn(pass.before, {}, {})
    /\ pass.ok
    /\ \E k \in 1..Len(pass.before.statements) :
          pass.before.statements[k].t = "Call"
    /\ \A k \in 1..Len(pass.after.statements) :
          pass.after.statements[k].t # "Call"

Folded == pass.op = "run_pure_primitives"

\* The statement k of the block is a Primitive Add whose arg names a List of
\* the block in front of it, of which every item names an Int in front of it.
AddOfKnownInts(code, k) ==
    LET statement == code.statements[k]
        known == (code.in_ + 1)..(code.in_ + k - 1)
    IN /\ statement.t = "Primitive"
       /\ statement.kind = "Add"
       /\ statement.arg \in known
       /\ Code_get(code, statement.arg).t = "List"
       /\ \A j \in 1..Len(Code_get(code, statement.arg).list) :
             LET item == Code_get(code, statement.arg).list[j]
             IN item \in known /\ Code_get(code, item).t = "Int"

RECURSIVE SumOfItems(_, _)
\* The sum of the Ints that the ids of a list name.
SumOfItems(code, list) ==
    IF list = <<>> THEN 0
    ELSE Code_get(code, Head(list)).n + SumOfItems(code, Tail(list))

\* C11: run_pure_primitives puts Int(s) in the place of a Primitive Add only
\* when its arg names a known List of which every item names a known Int, s
\* being the sum of these Ints; every other statement is left as it was, and
\* the folded program ends, run through the rest of the pipeline, as the
\* program itself does.
C11_OnlyAddsOfIntsAreFolded ==
    Folded =>
        /\ pass.ok
        /\ Len(pass.after.statements) = Len(pass.before.statements)
        /\ \A k \in 1..Len(pass.before.statements) :
              pass.after.statements[k] =
                 IF AddOfKnownInts(pass.before, k)
                 THEN HirInt(SumOfItems(pass.before,
                                        Code_get(pass.before,
                                                 pass.before.statements[k].arg).list))
                 ELSE pass.before.statements[k]
        /\ Outcome(pass.after, pass.order) = Outcome(pass.before, pass.order)

\* run_pure_primitives has met a Primitive Add of a List in which an item is
\* not an Int.
C11_AddOfListWithOtherItem ==
    /\ Folded
    /\ pass.ok
    /\ \E k \in 1..Len(pass.before.statements) :
          LET statement == pass.before.statements[k]
          IN /\ statement.t = "Primitive"
             /\ statement.kind = "Add"
             /\ Code_get(pass.before, statement.arg).t = "List"
             /\ \E j \in 1..Len(Code_get(pass.before, statement.arg).list) :
                   Code_get(pass.before,
                            Code_get(pass.before, statement.arg).list[j]).t # "Int"

Cleaned == pass.op = "remove_unused_statements"

RECURSIVE SameStatement(_, _)
\* Two statements are the same, the entries of a Map taken as a set.
SameStatement(a, b) ==
    IF a.t # b.t THEN FALSE
    ELSE IF a.t = "Map"
    THEN Len(a.map) = Len(b.map) /\ Range(a.map) = Range(b.map)
    ELSE IF a.t = "Code"
    THEN /\ a.code.in_ = b.code.in_
         /\ a.code.out = b.code.out
         /\ Len(a.code.statements) = Len(b.code.statements)
         /\ \A k \in 1..Len(a.code.statements) :
               SameStatement(a.code.statements[k], b.code.statements[k])
    ELSE a = b

\* A statement without an effect: a literal, a Map, a List, a Code, or a
\* Primitive of a kind that is pure.
WithoutEffect(statement) ==
    /\ statement.t # "Call"
    /\ statement.t = "Primitive" => PrimitiveKind_is_pure(statement.kind)

\* The ids of the block in front of the statement k that the statement
\* names.
NamedBy(code, k) ==
    collect_used_ids(code.statements[k]) \cap ((code.in_ + 1)..(code.in_ + k - 1))

RECURSIVE NeededFrom(_, _, _)
\* The ids that are needed by the ids in needed, directly or through up to
\* turns statements.
NeededFrom(code, needed, turns) ==
    IF turns = 0 THEN needed
    ELSE NeededFrom(code,
                    needed \cup UNION {NamedBy(code, id - code.in_) : id \in needed},
                    turns - 1)

\* The ids of the statements of the block that have to stay: those of the
\* statements that are not pure, the out of the block, and what these need.
Needed(code) ==
    NeededFrom(code,
               {id \in IdsOf(code) : id = code.out \/ ~WithoutEffect(Code_get(code, id))},
               Len(code.statements))

\* The id of a needed statement once the others are gone.
NewId(code, id) == code.in_ + Cardinality({j \in Needed(code) : j <= id})

RECURSIVE WithoutUnused(_, _)
\* The block without the statements that are not needed, in itself and in
\* the blocks nested in it, every reference naming the statement it named.
WithoutUnused(code, order) ==
    LET inner == [code EXCEPT !.statements =
                     [k \in 1..Len(code.statements) |->
                         IF code.statements[k].t = "Code"
                         THEN HirCode(WithoutUnused(code.statements[k].code, order))
                         ELSE code.statements[k]]]
        kept == SortedSeq(Needed(inner))
        renamed(id) ==
            statement_replace_ids(
                Code_get(inner, id),
                [kind |-> "range", start |-> inner.in_ + 1, end |-> id,
                 shift |-> NewId(inner, id) - id,
                 remap |-> [j \in Needed(inner) |-> NewId(inner, j)]],
                order)
    IN [in_ |-> inner.in_,
        out |-> IF inner.out \in IdsOf(inner) THEN NewId(inner, inner.out)
                ELSE inner.out,
        statements |-> [k \in 1..Len(kept) |-> renamed(kept[k])]]

RECURSIVE WithoutAddresses(_)
\* A value with the address of the body of every closure in it left out: the
\* address says where the emitter put the body, which a pass may move.  The
\* entries of a Map are taken as a set.
WithoutAddresses(value) ==
    CASE value.t = "Closure" ->
            ClosureV([k \in 1..Len(value.captured) |->
                         WithoutAddresses(value.captured[k])], 0)
      [] value.t = "List" ->
            ListV([k \in 1..Len(value.items) |-> WithoutAddresses(value.items[k])])
      [] value.t = "Map" ->
            MapV({<<WithoutAddresses(value.entries[k][1]),
                    WithoutAddresses(value.entries[k][2])>> :
                     k \in 1..Len(value.entries)})
      [] OTHER -> value

\* How a program ends, apart from where the bodies of its closures are.
Ends(outcome) ==
    IF outcome.t \in {"Done", "Panicked"}
    THEN [outcome EXCEPT !.value = WithoutAddresses(@)]
    ELSE outcome

\* C12: remove_unused_statements removes exactly the pure statements that
\* neither the out of the block nor a statement that stays needs, a Call or
\* a Primitive that is not pure stays, every reference that is left names
\* the statement it named, and a program that ends with an output ends with
\* the same output afterwards.
C12_ExactlyTheUnusedPureStatementsAreRemoved ==
    Cleaned =>
        /\ pass.ok
        /\ SameStatement(HirCode(pass.after),
                         HirCode(WithoutUnused(pass.before, pass.order)))
        /\ \A id \in IdsOf(pass.before) :
              ~WithoutEffect(Code_get(pass.before, id)) =>
                  /\ id \in Needed(pass.before)
                  /\ pass.after.statements[NewId(pass.before, id) - pass.before.in_].t
                        = Code_get(pass.before, id).t
        /\ Outcome(pass.before, pass.order).t = "Done" =>
              Ends(Outcome(pass.after, pass.order))
                 = Ends(Outcome(pass.before, pass.order))

\* remove_unused_statements has removed a String that nothing needs from a
\* program that ends with Int(1).
C12_UnusedStringRemoved ==
    /\ Cleaned
    /\ pass.ok
    /\ \E k \in 1..Len(pass.before.statements) :
          pass.before.statements[k].t = "String"
    /\ \A k \in 1..Len(pass.after.statements) :
          pass.after.statements[k].t # "String"
    /\ Outcome(pass.before, pass.order) = [t |-> "Done", value |-> IntV(1)]
    /\ Outcome(pass.after, pass.order) = [t |-> "Done", value |-> IntV(1)]

(***************************************************************************)
(* Properties of the byte code.                                            *)
(***************************************************************************)
Emitted == pass.op = "push_instruction"

\* C13: Instruction::parse reads from the bytes the emitter writes for an
\* instruction the instruction itself, and consumes as many bytes as were
\* written.
C13_ParseReadsWhatTheEmitterWrites ==
    Emitted =>
        /\ pass.ok
        /\ pass.parsed.ok
        /\ pass.parsed.instruction = pass.instruction
        /\ pass.parsed.consumed = Len(pass.bytes)

\* The emitter has written a CreateString of 256 bytes or more.
C13_LongStringWritten ==
    /\ Emitted
    /\ pass.instruction.op = "CreateString"
    /\ Len(pass.instruction.s) >= 256

\* Instruction::parse reads from the bytes of Instruction::to_bytes the
\* instruction itself, and consumes as many bytes as to_bytes gave, unless
\* these are 256 or more.
ParseReadsToBytesOfShortInstructions ==
    pass.op = "to_bytes" =>
        /\ pass.parsed.ok
        /\ pass.parsed.instruction = pass.instruction
        /\ pass.parsed.consumed = Len(pass.bytes) % 256

(***************************************************************************)
(* Properties of the heap of a fiber.                                      *)
(***************************************************************************)
RECURSIVE Nodes(_), NodesOfAll(_)
\* The number of the nodes of a Value.
Nodes(value) ==
    CASE value.t = "Map" ->
            1 + NodesOfAll([k \in 1..Len(value.entries) |-> value.entries[k][1]])
              + NodesOfAll([k \in 1..Len(value.entries) |-> value.entries[k][2]])
      [] value.t = "List" -> 1 + NodesOfAll(value.items)
      [] value.t = "Closure" -> 1 + NodesOfAll(value.captured)
      [] OTHER -> 1

NodesOfAll(values) ==
    IF values = <<>> THEN 0 ELSE Nodes(Head(values)) + NodesOfAll(Tail(values))

\* The addresses of the objects that the import made.
Imported(f) == (DOMAIN f.heap) \ (DOMAIN pass.before.heap)

\* C14: Fiber::import makes one object for each node of the Value, each
\* with the reference count 1, and leaves the other objects alone; and
\* Fiber::export of the pointer it returned gives the Value back and leaves
\* the heap as it was before the import.
C14_ExportGivesBackWhatImportTook ==
    /\ pass.op = "import" =>
          /\ Cardinality(Imported(pass.fiber)) = Nodes(pass.value)
          /\ pass.pointer \in Imported(pass.fiber)
          /\ \A a \in Imported(pass.fiber) : pass.fiber.heap[a].reference_count = 1
          /\ \A a \in DOMAIN pass.before.heap :
                pass.fiber.heap[a] = pass.before.heap[a]
    /\ pass.op = "export" =>
          /\ ~Aborted(pass.fiber)
          /\ pass.result = pass.value
          /\ pass.fiber.heap = pass.before.heap

\* A Map of more than three nodes has been imported and exported.
C14_NestedValueExported ==
    /\ pass.op = "export"
    /\ Nodes(pass.value) > 3
    /\ pass.value.t = "Map"

(***************************************************************************)
(* Properties of Fiber::run.                                               *)
(***************************************************************************)
\* The kind that a name stands for in the argument of a primitive that is
\* not specialised, "None" for a name that is not known.
KindNamed(name) ==
    CASE name = SymAdd -> "Add"
      [] name = SymGetItem -> "GetItem"
      [] name = SymGetAmbient -> "GetAmbient"
      [] name = SymPanic -> "Panic"
      [] name = SymChannel -> "CreateChannel"
      [] name = SymSend -> "Send"
      [] name = SymReceive -> "Receive"
      [] OTHER -> "None"

\* The argument does not have the shape that the primitive of the kind
\* needs.
WrongShape(kind, arg, ambients) ==
    CASE kind = "Add" ->
            arg.t # "List" \/ \E k \in 1..Len(arg.items) : arg.items[k].t # "Int"
      [] kind = "GetItem" ->
            \/ arg.t # "List"
            \/ Len(arg.items) # 2
            \/ arg.items[1].t # "List"
            \/ arg.items[2].t # "Int"
            \/ arg.items[2].n < 0
            \/ arg.items[2].n >= Len(arg.items[1].items)
      [] kind = "GetAmbient" ->
            arg.t # "Symbol" \/ \A k \in 1..Len(ambients) : ambients[k][1] # arg.s
      [] kind = "Panic" -> FALSE
      [] kind = "CreateChannel" -> arg.t # "Int"
      [] kind = "Send" ->
            arg.t # "List" \/ Len(arg.items) # 2 \/ arg.items[1].t # "ChannelSendEnd"
      [] kind = "Receive" -> arg.t # "ChannelReceiveEnd"

\* The same for a primitive that may not be specialised.
Misused(kind, arg, ambients) ==
    IF kind # "None" THEN WrongShape(kind, arg, ambients)
    ELSE \/ arg.t # "List"
         \/ Len(arg.items) # 2
         \/ arg.items[1].t # "Symbol"
         \/ KindNamed(arg.items[1].s) = "None"
         \/ WrongShape(KindNamed(arg.items[1].s), arg.items[2], ambients)

\* The next instruction of the fiber is a Primitive, and the object on top
\* of its stack is not an argument for it.
MisuseNext(f) ==
    /\ f.status.t = "Running"
    /\ parse(f.byte_code, f.ip).ok
    /\ parse(f.byte_code, f.ip).instruction.op = "Primitive"
    /\ f.stack # <<>>
    /\ Last(f.stack).k = "heap"
    /\ Misused(parse(f.byte_code, f.ip).instruction.kind,
               export_helper(f, Last(f.stack).a).r, f.ambients)

\* The fiber has panicked with [:wrong-usage, message], has taken the
\* argument off the stack of f and put nothing there, and has run no
\* instruction after the Primitive.
PanickedOnMisuse(f, after) ==
    /\ after.status.t = "Panicked"
    /\ after.status.value.t = "List"
    /\ Len(after.status.value.items) = 2
    /\ after.status.value.items[1] = SymbolV(SymWrongUsage)
    /\ after.status.value.items[2].t = "String"
    /\ after.stack = Front(f.stack)
    /\ after.ip = f.ip + 1

MisuseInFrontOfAnInstructionLeavesFiberPanicked ==
    (pass.op = "run" /\ MisuseNext(pass.before)
     /\ pass.before.ip + 1 < Len(pass.before.byte_code)) =>
        PanickedOnMisuse(pass.before, pass.fiber)

OnlyChildRunIsRunning ==
    (pass.op = "child" /\ Len(children) = 1) =>
        /\ pass.status.t = "Running"
        /\ crash # "Called run on Fiber with a status that is not running."

(***************************************************************************)
(* Properties of the loop of Fiber::run.                                   *)
(***************************************************************************)
\* The fiber after k instructions, each the one at the ip that the one
\* before it left.
RECURSIVE Steps(_, _)
Steps(f, k) == IF k = 0 THEN f ELSE fiber_step(Steps(f, k - 1))

\* The instruction at the ip of f leaves the status Running, or the status
\* leaves Running as the loop says: at the end of the byte code the status
\* is Done with the export of the top of the stack, elsewhere a primitive
\* has set it.  A panic of the process is none of the statuses.
LeavesRunningInOrder(f) ==
    LET after == fiber_step(f)
        parsed == parse(f.byte_code, f.ip)
        ran == run_instruction([f EXCEPT !.ip = @ + parsed.consumed],
                               parsed.instruction)
    IN (after.status.t \notin {"Running", "Aborted"}) =>
          IF after.ip >= Len(after.byte_code)
          THEN /\ ran.stack # <<>>
               /\ Last(ran.stack).k = "heap"
               /\ after.status = Done(export_helper(ran, Last(ran.stack).a).r)
          ELSE /\ parsed.instruction.op = "Primitive"
               /\ after.status.t \in {"Panicked", "CreatingChannel", "Sending",
                                      "Receiving"}

\* C17: Fiber::run(n) executes at most n instructions, each the one at the
\* ip, and none after the status has left Running; the status leaves
\* Running by a primitive only, or by the ip reaching the end of the byte
\* code, and then it is Done(v) with v the export of the top of the stack.
C17_RunExecutesAtMostNWhileRunning ==
    pass.op = "run" =>
       \E k \in 0..pass.n :
          /\ pass.fiber = Steps(pass.before, k)
          /\ \A j \in 0..(k - 1) :
                /\ Steps(pass.before, j).status.t = "Running"
                /\ LeavesRunningInOrder(Steps(pass.before, j))

\* Fiber::run(2) has stopped after a primitive that waits for a message,
\* with an instruction left behind it.
C17_StoppedByPrimitiveWithinBudget ==
    /\ pass.op = "run"
    /\ pass.n = 2
    /\ pass.fiber.status.t = "Receiving"
    /\ pass.fiber.ip < Len(pass.fiber.byte_code)
    /\ pass.before.ip = 0

\* Fiber::run has run off the end of the byte code and the fiber is Done.
RunReachedEndOfByteCode ==
    /\ pass.op = "run"
    /\ pass.fiber.status.t = "Done"
    /\ pass.fiber.ip >= Len(pass.fiber.byte_code)

(***************************************************************************)
(* Properties of the internal channels of capacity 0.                      *)
(***************************************************************************)
\* The internal channels of capacity 0.
RendezvousChannels ==
    {id \in DOMAIN channels :
        channels[id].kind = "Internal" /\ channels[id].capacity = 0}

PendingSends(operations, id) ==
    {j \in 1..Len(operations) : operations[j].t = "Send" /\ operations[j].id = id}

PendingReceives(operations, id) ==
    {j \in 1..Len(operations) : operations[j].t = "Receive" /\ operations[j].id = id}

\* A step resolves no Send on a channel of capacity 0 unless a Receive is
\* pending on the channel, before the step or by the child the step runs.
NoSendResolvedWithoutReceive ==
    \A id \in RendezvousChannels :
       (/\ PendingSends(internal_pending_operations, id) # {}
        /\ Len(accepted'[id]) > Len(accepted[id]))
       => \/ PendingReceives(internal_pending_operations, id) # {}
          \/ \E c \in 1..Len(children) :
                /\ children[c].fiber.status.t = "Running"
                /\ children'[c].fiber.status = Receiving(id)

\* Vm::run leaves no Send and Receive pending together on a channel of
\* capacity 0: it has resolved the Send that met the Receive.
NoSendLeftWithReceive ==
    crash = "" =>
       \A id \in RendezvousChannels :
          \/ PendingSends(internal_pending_operations, id) = {}
          \/ PendingReceives(internal_pending_operations, id) = {}

CapacityZeroAcceptsNothing ==
    \A id \in RendezvousChannels :
       /\ accepted[id] = <<>>
       /\ delivered[id] = <<>>
       /\ channels[id].messages = <<>>

\* On a channel with room, a Send that meets a pending Receive is resolved
\* by the call of Vm::run that has run the sender, and its message is
\* delivered.
SendWithRoomReachesPendingReceive ==
    [][\A id \in DOMAIN channels :
          (/\ channels[id].kind = "Internal"
           /\ channels[id].capacity > 0
           /\ crash' = ""
           /\ PendingReceives(internal_pending_operations, id) # {}
           /\ \E c \in 1..Len(children) :
                 /\ children[c].fiber.status.t = "Running"
                 /\ children'[c].fiber.status.t # "Sending"
                 /\ Len(accepted'[id]) > Len(accepted[id]))
          => Len(delivered'[id]) > Len(delivered[id])]_vars

(***************************************************************************)
(* Properties of `->`.                                                     *)
(***************************************************************************)
\* How a program that binds a value is meant to end: with unit when the
\* binding is its last word, else with the value bound, which is what the
\* program of the value alone ends with.
LetEnd ==
    IF pass.shape = "bound" THEN Done(unit)
    ELSE Ends(Outcome(compile_to_hir(pass.value).code, pass.order))

\* How the program ends when the HIR is not optimised.
PlainEnd == Ends(Outcome(pass.before, pass.order))

\* How the program ends when the HIR is optimised, as in Mehl::Run.
OptimizedEnd ==
    IF pass.ok THEN Ends(Outcome(pass.after, pass.order))
    ELSE [t |-> "CompilerPanic"]

\* C19: after `d -> name` the dot is unit, and a later use of the name, in
\* the block or in a nested block and whatever stands in front of it, gives
\* the value d had; the program compiles and runs, with and without the
\* optimisation of the HIR.
C19_NameGivesTheValueBound ==
    pass.op = "compiled" =>
       /\ PlainEnd = LetEnd
       /\ OptimizedEnd = LetEnd

\* A program that uses a bound name behind an argument has been compiled;
\* the value alone is a program that ends with the value.
C19_BoundNameUsed ==
    /\ pass.op = "compiled"
    /\ pass.shape = "named with argument"
    /\ LetEnd.t = "Done"

\* With the optimisation of the HIR, a binding that is not used leaves unit
\* and a name used right behind its binding gives the value bound.
OptimizedLetUsedAtOnce ==
    (pass.op = "compiled" /\ pass.shape \in {"bound", "named"}) =>
       OptimizedEnd = LetEnd

(***************************************************************************)
(* Properties of the captured ids of compile_to_lir.                       *)
(***************************************************************************)
\* The ids that the statements of the block name, those of nested blocks
\* included.
UsedIn(code) ==
    UNION {collect_used_ids(code.statements[k]) : k \in 1..Len(code.statements)}

\* C20: the captured list of the closure that compile_to_lir makes of a
\* block holds, ascending and each once, exactly the ids named by the
\* statements of the block and of its nested blocks that are smaller than
\* the id of the block's first statement; no id of a statement of the block
\* is captured.
C20_CapturedAreTheOuterIdsUsed ==
    pass.op = "compile_to_lir" =>
       /\ pass.after.captured =
             SortedSeq({id \in UsedIn(pass.before) : id < pass.before.in_ + 1})
       /\ Range(pass.after.captured) \cap IdsOf(pass.before) = {}

\* compile_to_lir has compiled a block with a statement that names another
\* statement of the block.
C20_StatementOfBlockUsed ==
    /\ pass.op = "compile_to_lir"
    /\ UsedIn(pass.before) \cap IdsOf(pass.before) # {}

\* The captured list holds, ascending and each once, every id that the
\* statements of the block name.
CapturedAreTheIdsUsed ==
    pass.op = "compile_to_lir" =>
       pass.after.captured = SortedSeq(UsedIn(pass.before))

(***************************************************************************)
(* Properties of the end-of-scope drops of compile_to_lir.                 *)
(***************************************************************************)
\* The statements of a LIR list after its last assignment.
AfterLastAssignment(statements) ==
    LET assignments == {k \in 1..Len(statements) : statements[k].t = "Assignment"}
        last == IF assignments = {} THEN 0
                ELSE CHOOSE k \in assignments : \A j \in assignments : j <= k
    IN SubSeq(statements, last + 1, Len(statements))

\* The statements are drops of one id each, one for each id of ids.
OneDropForEach(statements, ids) ==
    /\ \A k \in 1..Len(statements) :
          statements[k].t = "Drop" /\ Len(statements[k].ids) = 1
    /\ Len(statements) = Cardinality(ids)
    /\ {statements[k].ids[1] : k \in 1..Len(statements)} = ids

\* No statement of the list drops the id.
NeverDropped(statements, id) ==
    \A k \in 1..Len(statements) :
        statements[k].t = "Drop" => \A j \in 1..Len(statements[k].ids) :
                                        statements[k].ids[j] # id

\* C21: the LIR of a block ends, after its last assignment, with exactly one
\* Drop for each id assigned in the block and one for the block's in, except
\* out, and holds no Drop of out.
C21_DropsOfAssignedAndInExceptOut ==
    pass.op = "compile_to_lir" =>
        /\ OneDropForEach(AfterLastAssignment(pass.after.code),
                          (IdsOf(pass.before) \cup {pass.before.in_})
                              \ {pass.before.out})
        /\ NeverDropped(pass.after.code, pass.before.out)

\* compile_to_lir has compiled a block that assigns an id besides its out,
\* so that it ends with a drop.
C21_BlockWithDropsCompiled ==
    /\ pass.op = "compile_to_lir"
    /\ IdsOf(pass.before) \ {pass.before.out} # {}
    /\ pass.before.in_ # pass.before.out

\* What the code does: one Drop for each id assigned in the block except
\* out, and none for the block's in.
DropsOfAssignedExceptOut ==
    pass.op = "compile_to_lir" =>
        /\ OneDropForEach(AfterLastAssignment(pass.after.code),
                          IdsOf(pass.before) \ {pass.before.out})
        /\ NeverDropped(pass.after.code, pass.before.out)

(***************************************************************************)
(* Properties of OptimizeLir::optimize.                                    *)
(***************************************************************************)
\* The number of times the statements of kind t ("Dup" or "Drop") of a list
\* name the id.
RECURSIVE Named(_, _, _)
Named(statements, t, id) ==
    IF statements = <<>> THEN 0
    ELSE (IF Head(statements).t = t THEN Count(Head(statements).ids, id) ELSE 0)
         + Named(Tail(statements), t, id)

\* The net effect of a list on the reference count of the id.
NetEffect(statements, id) ==
    Named(statements, "Dup", id) - Named(statements, "Drop", id)

\* The ids a list names.
LirIds(statements) ==
    UNION {IF statements[k].t = "Assignment"
           THEN {statements[k].id} \cup Range(Expr_collect_used_ids(statements[k].value))
           ELSE Range(statements[k].ids) : k \in 1..Len(statements)}

\* The references to each id that the code of a closure holds after its
\* first k statements: one to its in and to each captured id of an outer
\* block at first, one to an id after its assignment, one more for each
\* Dup and one less for each Drop and for each place of an expression that
\* takes the id.
RECURSIVE References(_, _)
References(closure, k) ==
    IF k = 0
    THEN [id \in LirIds(closure.code) \cup {closure.in_} |->
             IF \/ id = closure.in_
                \/ /\ id \in Range(closure.captured)
                   /\ \A j \in 1..Len(closure.code) :
                         closure.code[j].t = "Assignment" => closure.code[j].id # id
             THEN 1 ELSE 0]
    ELSE LET before == References(closure, k - 1)
             statement == closure.code[k]
         IN CASE statement.t = "Dup" ->
                    [id \in DOMAIN before |-> before[id] + Count(statement.ids, id)]
              [] statement.t = "Drop" ->
                    [id \in DOMAIN before |-> before[id] - Count(statement.ids, id)]
              [] statement.t = "Assignment" ->
                    [id \in DOMAIN before |->
                        IF id = statement.id THEN 1
                        ELSE before[id]
                             - Count(Expr_collect_used_ids(statement.value), id)]

\* Every statement of the closure's code that names an id, but for the
\* assignment of the id, finds it with a live reference.
UsesFindLiveReference(closure) ==
    \A k \in 1..Len(closure.code) :
        LET statement == closure.code[k]
            used == IF statement.t = "Assignment"
                    THEN Range(Expr_collect_used_ids(statement.value))
                    ELSE Range(statement.ids)
        IN \A id \in used : References(closure, k - 1)[id] >= 1

\* C22: the optimised list has the same net effect on the reference count
\* of every id as the list that the lowering produced (no pending Drop is
\* discarded), and every statement that uses an id still finds it with a
\* live reference.
C22_OptimizeKeepsNetEffect ==
    pass.op = "lir_optimize" =>
        /\ \A id \in LirIds(pass.before.code) \cup LirIds(pass.after.code) :
              NetEffect(pass.after.code, id) = NetEffect(pass.before.code, id)
        /\ UsesFindLiveReference(pass.before) => UsesFindLiveReference(pass.after)

\* optimize has worked on a list in which a Drop is pending at an
\* assignment whose expression uses the id dropped.
C22_DropPendingAtUse ==
    /\ pass.op = "lir_optimize"
    /\ \E k \in 1..Len(pass.before.code) :
          /\ pass.before.code[k].t = "Assignment"
          /\ \E id \in Range(Expr_collect_used_ids(pass.before.code[k].value)) :
                Named(SubSeq(pass.before.code, k + 1, Len(pass.before.code)),
                      "Drop", id) > 0

\* What the code keeps: it never lowers the net effect on an id, and the
\* uses find a live reference.
OptimizeNeverLowersNetEffect ==
    pass.op = "lir_optimize" =>
        /\ \A id \in LirIds(pass.before.code) \cup LirIds(pass.after.code) :
              NetEffect(pass.after.code, id) >= NetEffect(pass.before.code, id)
        /\ UsesFindLiveReference(pass.before) => UsesFindLiveReference(pass.after)

(***************************************************************************)
(* Properties of deduplicate_statements.  The term of an id is the value   *)
(* it names with the ids in it replaced by their terms: it does not change *)
(* when a statement is removed and its uses are rewritten to an equal      *)
(* statement.  The in of the block at nesting depth d has the term In(d);  *)
(* a Call and a Primitive that is not pure have a term of their own each,  *)
(* by their place among the effects of their block.                        *)
(***************************************************************************)
TermOf(env, id) == IF id \in DOMAIN env THEN env[id] ELSE [t |-> "Missing"]

RECURSIVE BlockTerms(_, _, _, _, _, _)
\* The walk over the statements of a block from the k-th on: the effects of
\* the block in their order, the terms of all its statements and of those
\* of its nested blocks, and the term of its out.
BlockTerms(code, env, k, effects, terms, depth) ==
    IF k > Len(code.statements)
    THEN [effects |-> effects, terms |-> terms, out |-> TermOf(env, code.out)]
    ELSE LET statement == code.statements[k]
             id == code.in_ + k
             nested == IF statement.t = "Code"
                       THEN BlockTerms(statement.code,
                                       (statement.code.in_ :> [t |-> "In", depth |-> depth + 1])
                                           @@ env,
                                       1, <<>>, {}, depth + 1)
                       ELSE [effects |-> <<>>, terms |-> {}, out |-> [t |-> "Missing"]]
             term ==
                 CASE statement.t \in {"Int", "String", "Symbol"} -> statement
                   [] statement.t = "List" ->
                         [t |-> "List",
                          list |-> [j \in 1..Len(statement.list) |->
                                       TermOf(env, statement.list[j])]]
                   [] statement.t = "Map" ->
                         [t |-> "Map",
                          map |-> {<<TermOf(env, statement.map[j][1]),
                                     TermOf(env, statement.map[j][2])>> :
                                      j \in 1..Len(statement.map)}]
                   [] statement.t = "Code" ->
                         [t |-> "Code", effects |-> nested.effects, out |-> nested.out]
                   [] statement.t = "Call" ->
                         [t |-> "Call", fun |-> TermOf(env, statement.fun),
                          arg |-> TermOf(env, statement.arg),
                          depth |-> depth, nth |-> Len(effects) + 1]
                   [] statement.t = "Primitive" ->
                         IF Statement_is_pure(statement)
                         THEN [t |-> "Primitive", kind |-> statement.kind,
                               arg |-> TermOf(env, statement.arg)]
                         ELSE [t |-> "Primitive", kind |-> statement.kind,
                               arg |-> TermOf(env, statement.arg),
                               depth |-> depth, nth |-> Len(effects) + 1]
         IN BlockTerms(code, (id :> term) @@ env, k + 1,
                       IF Statement_is_pure(statement) THEN effects
                       ELSE Append(effects, term),
                       terms \cup {term} \cup nested.terms, depth)

\* The terms of the block of a program.
ProgramTerms(code) ==
    BlockTerms(code, (code.in_ :> [t |-> "In", depth |-> 0]), 1, <<>>, {}, 0)

Deduplicated == pass.op = "deduplicate_statements"

\* C23: deduplicate_statements removes only pure statements that have an
\* equal pure statement with a smaller id in scope and rewrites the uses of
\* the removed id to that id, so that the values, the effects and the out
\* of the block are the ones it had; Calls and Primitives that are not pure
\* are never merged; the block stays well-formed.
C23_DeduplicateMergesEqualPureStatements ==
    (Deduplicated /\ WellFormedIn(pass.before, pass.scope, {})) =>
        /\ pass.ok
        /\ ProgramTerms(pass.after) = ProgramTerms(pass.before)
        /\ WellFormedIn(pass.after, pass.scope, {})

\* deduplicate_statements has removed a statement.
C23_StatementRemoved ==
    /\ Deduplicated
    /\ pass.ok
    /\ Code_size(pass.after) < Code_size(pass.before)

RECURSIVE HasMap(_)
\* A statement of the block or of a block nested in it is a Map.
HasMap(code) ==
    \E k \in 1..Len(code.statements) :
        \/ code.statements[k].t = "Map"
        \/ code.statements[k].t = "Code" /\ HasMap(code.statements[k].code)

\* What the code keeps: in a block without a Map the values, the effects
\* and the out are the ones the block had.
DeduplicateKeepsTermsWithoutMap ==
    (Deduplicated /\ ~HasMap(pass.before)) =>
        /\ pass.ok
        /\ ProgramTerms(pass.after) = ProgramTerms(pass.before)

(***************************************************************************)
(* Properties of make_primitives_concrete.                                 *)
(***************************************************************************)
\* The statement that takes the place of a statement: the Primitive of the
\* kind a known Symbol names, PrimitiveKind::parse giving the kind, for a
\* Primitive that is not specialised and whose arg names a known List of
\* two ids, the first of them naming the Symbol; else the statement itself.
\* known gives the statements by their ids.
ConcreteOf(statement, known) ==
    IF /\ statement.t = "Primitive"
       /\ statement.kind = "None"
       /\ statement.arg \in DOMAIN known
       /\ known[statement.arg].t = "List"
       /\ Len(known[statement.arg].list) = 2
       /\ known[statement.arg].list[1] \in DOMAIN known
       /\ known[known[statement.arg].list[1]].t = "Symbol"
       /\ KindNamed(known[known[statement.arg].list[1]].s) # "None"
    THEN HirPrimitive(KindNamed(known[known[statement.arg].list[1]].s),
                      known[statement.arg].list[2])
    ELSE statement

RECURSIVE WithConcretePrimitives(_, _)
\* The block with each statement, also of the nested blocks, replaced by
\* its ConcreteOf; known gives the statements of the enclosing blocks.
WithConcretePrimitives(code, known) ==
    [code EXCEPT !.statements =
        [k \in 1..Len(code.statements) |->
            LET seen == [id \in (code.in_ + 1)..(code.in_ + k) |->
                            Code_get(code, id)] @@ known
                statement == code.statements[k]
            IN IF statement.t = "Code"
               THEN HirCode(WithConcretePrimitives(statement.code,
                       [id \in DOMAIN seen \ {code.in_ + k} |-> seen[id]]))
               ELSE ConcreteOf(statement, seen)]]

MadeConcrete == pass.op = "make_primitives_concrete"

\* C24: make_primitives_concrete rewrites a Primitive that is not
\* specialised to the Primitive of the kind that parse gives, with the
\* second id as arg, exactly when its arg names a known List of two ids
\* whose first names a known Symbol that parses; every other statement is
\* left as it is, also a Primitive whose arg or whose list's first item is
\* the block's in or another id that is no known statement, and the pass
\* does not fail.
C24_ConcreteExactlyForKnownListOfSymbol ==
    MadeConcrete =>
        /\ pass.ok
        /\ pass.after = WithConcretePrimitives(pass.before, <<>>)

RECURSIVE HasUnspecialised(_)
HasUnspecialised(code) ==
    \E k \in 1..Len(code.statements) :
        \/ code.statements[k].t = "Primitive" /\ code.statements[k].kind = "None"
        \/ /\ code.statements[k].t = "Code"
           /\ HasUnspecialised(code.statements[k].code)

\* make_primitives_concrete has worked on a block with a Primitive that is
\* not specialised.
C24_UnspecialisedPrimitiveMet ==
    /\ MadeConcrete
    /\ HasUnspecialised(pass.before)

RECURSIVE SymbolsOf(_)
\* The names of the Symbols of the block and of its nested blocks.
SymbolsOf(code) ==
    UNION {IF code.statements[k].t = "Symbol" THEN {code.statements[k].s}
           ELSE IF code.statements[k].t = "Code"
           THEN SymbolsOf(code.statements[k].code)
           ELSE {} : k \in 1..Len(code.statements)}

\* What the code keeps: where the pass does not fail and no Symbol names a
\* kind other than Add, the block is rewritten as C24 says.
ConcreteForAddWherePassCompletes ==
    (MadeConcrete /\ pass.ok
     /\ \A name \in SymbolsOf(pass.before) : KindNamed(name) \in {"None", "Add"}
     /\ SymPrint \notin SymbolsOf(pass.before)) =>
        pass.after = WithConcretePrimitives(pass.before, <<>>)

(***************************************************************************)
(* Properties of the splice of inline_code, on the blocks of programs with *)
(* one Call, which stands in the block of the program and calls a Code     *)
(* statement of that block.                                                *)
(***************************************************************************)
RECURSIVE NumberOfCalls(_)
\* The Calls of the block and of its nested blocks.
NumberOfCalls(code) ==
    IF code.statements = <<>> THEN 0
    ELSE LET statement == Head(code.statements)
         IN (IF statement.t = "Call" THEN 1
             ELSE IF statement.t = "Code" THEN NumberOfCalls(statement.code)
             ELSE 0)
            + NumberOfCalls([code EXCEPT !.statements = Tail(@)])

\* The ids of the Calls of the block whose fun is a Code statement of the
\* block in front of the Call.
CallsOfKnownCode(code) ==
    {c \in IdsOf(code) :
        /\ Code_get(code, c).t = "Call"
        /\ Code_get(code, c).fun \in (code.in_ + 1)..(c - 1)
        /\ Code_get(code, Code_get(code, c).fun).t = "Code"}

\* The one Call of the program.
TheCall(code) == CHOOSE c \in CallsOfKnownCode(code) : TRUE

RECURSIVE Renamed(_, _)
\* The statement with each id it names replaced by what the function r
\* gives for it; an id outside the domain of r stays.
Renamed(statement, r) ==
    LET to(id) == IF id \in DOMAIN r THEN r[id] ELSE id
    IN CASE statement.t = "Map" ->
               HirMap([k \in 1..Len(statement.map) |->
                          <<to(statement.map[k][1]), to(statement.map[k][2])>>])
         [] statement.t = "List" ->
               HirList([k \in 1..Len(statement.list) |-> to(statement.list[k])])
         [] statement.t = "Code" ->
               HirCode([in_ |-> to(statement.code.in_),
                        out |-> to(statement.code.out),
                        statements |->
                           [k \in 1..Len(statement.code.statements) |->
                               Renamed(statement.code.statements[k], r)]])
         [] statement.t = "Call" -> HirCall(to(statement.fun), to(statement.arg))
         [] statement.t = "Primitive" ->
               HirPrimitive(statement.kind, to(statement.arg))
         [] OTHER -> statement

\* The renaming of the callee spliced at c: its in becomes arg, the ids
\* behind its in move to the ids from c on, outer ids stay.
CalleeRenaming(code, c) ==
    LET callee == Code_get(code, Code_get(code, c).fun).code
    IN [id \in MentionedIds(callee) |->
           IF id = callee.in_ THEN Code_get(code, c).arg
           ELSE IF id > callee.in_ THEN id + (c - callee.in_ - 1)
           ELSE id]

\* The renaming of the statements behind the Call at c: c becomes what the
\* callee's out has become, the ids behind c move by the n - 1 statements
\* that the block has grown by.
LaterRenaming(code, c) ==
    LET callee == Code_get(code, Code_get(code, c).fun).code
    IN [id \in MentionedIds(code) |->
           IF id = c THEN CalleeRenaming(code, c)[callee.out]
           ELSE IF id > c THEN id + Len(callee.statements) - 1
           ELSE id]

\* The statements that take the place of the Call at c.
Spliced(code, c) ==
    LET callee == Code_get(code, Code_get(code, c).fun).code
    IN [k \in 1..Len(callee.statements) |->
           Renamed(callee.statements[k], CalleeRenaming(code, c))]

\* The block with the Call at c inlined.
WithCallInlined(code, c) ==
    [in_ |-> code.in_,
     out |-> LaterRenaming(code, c)[code.out],
     statements |->
        SubSeq(code.statements, 1, c - code.in_ - 1)
        \o Spliced(code, c)
        \o [k \in 1..(Len(code.statements) - (c - code.in_)) |->
               Renamed(code.statements[c - code.in_ + k], LaterRenaming(code, c))]]

OneCallOfKnownCode ==
    /\ Inlined
    /\ NumberOfCalls(pass.before) = 1
    /\ CallsOfKnownCode(pass.before) # {}

\* C25: inline_code puts the n statements of the callee at the ids c, ...,
\* c + n - 1 in the place of the Call at c, with the callee's in renamed to
\* arg and its statements to their copies, outer ids unchanged; it rewrites
\* every later reference to c to what the callee's out has become (the
\* copy of a statement, arg, or an outer id); and it does not fail on the
\* statements that remain.
C25_InlineSplicesCalleeAndRewritesCall ==
    OneCallOfKnownCode =>
        /\ pass.ok
        /\ pass.after = WithCallInlined(pass.before, TheCall(pass.before))

\* inline_code has inlined a callee with a statement, and a statement
\* stands behind the Call.
C25_CalleeWithStatementInlined ==
    /\ OneCallOfKnownCode
    /\ Len(Code_get(pass.before,
                    Code_get(pass.before, TheCall(pass.before)).fun).code.statements) > 0
    /\ TheCall(pass.before) < next_id(pass.before) - 1

\* What the code keeps where it does not fail: the statements in front of
\* the Call and the spliced statements are as C25 says.
InlineSplicesRenamedCallee ==
    (OneCallOfKnownCode /\ pass.ok) =>
        LET c == TheCall(pass.before)
            upto == c - pass.before.in_ - 1 + Len(Spliced(pass.before, c))
        IN /\ Len(pass.after.statements) >= upto
           /\ SubSeq(pass.after.statements, 1, upto)
                 = SubSeq(WithCallInlined(pass.before, c).statements, 1, upto)

(***************************************************************************)
(* Properties of the creation of channels by Vm::run.                      *)
(***************************************************************************)
\* The step is a call Vm::run(num_instructions) that runs the child chosen.
IsRunOf(num_instructions, chosen) ==
    /\ crash = ""
    /\ last_call'.op = "run"
    /\ RunningChildren(Vm) # <<>>
    /\ chosen \in 1..Len(RunningChildren(Vm))
    /\ Vm' = vm_run(Vm, num_instructions, chosen)

\* The fiber of the child as Fiber::run leaves it, before Vm::run looks at
\* its status.
RanFiber(num_instructions, chosen) ==
    fiber_run(children[chosen].fiber, num_instructions)

\* The call has stored the channel for the fiber left in CreatingChannel.
ChannelStoredFor(ran, chosen) ==
    LET id == next_channel_id
        fiber == children'[chosen].fiber
    IN /\ id \notin DOMAIN channels
       /\ DOMAIN channels' = DOMAIN channels \cup {id}
       /\ channels'[id] = Internal(ran.status.capacity, <<>>)
       /\ \A other \in DOMAIN channels : channels'[other] = channels[other]
       /\ fiber.status = Running
       /\ Len(fiber.stack) = Len(ran.stack) + 1
       /\ SubSeq(fiber.stack, 1, Len(ran.stack)) = ran.stack
       /\ Last(fiber.stack).k = "heap"
       /\ export_helper(fiber, Last(fiber.stack).a).r
             = ListV(<<ChannelSendEndV(id), ChannelReceiveEndV(id)>>)
       /\ fiber.ip = ran.ip

\* C26: when the fiber that Vm::run has run is left in CreatingChannel(cap),
\* the same call stores a new empty internal channel of capacity cap under
\* an id that was no key of channels, pushes the list of the two ends of
\* that id on the fiber's stack and sets the fiber back to Running.
C26_CreatingChannelStoresNewChannel ==
    [][\A num_instructions \in NumInstructions, chosen \in 1..MaxChildren :
          (/\ IsRunOf(num_instructions, chosen)
           /\ RanFiber(num_instructions, chosen).status.t = "CreatingChannel")
          => ChannelStoredFor(RanFiber(num_instructions, chosen), chosen)]_vars

\* Vm::run has created the channel of a program behind the two channels of
\* the ambients, and the fiber holds the two ends of it.
C26_ChannelCreatedBehindAmbients ==
    /\ crash = ""
    /\ last_call.op = "run"
    /\ DOMAIN channels = {0, 1, 2}
    /\ channels[0].kind = "External"
    /\ channels[1].kind = "External"
    /\ channels[2] = Internal(MaxCapacity, <<>>)
    /\ children[1].fiber.status = Running
    /\ Len(children[1].fiber.stack) = 2
    /\ Last(children[1].fiber.stack).k = "heap"
    /\ export_helper(children[1].fiber, Last(children[1].fiber.stack).a).r
          = ListV(<<ChannelSendEndV(2), ChannelReceiveEndV(2)>>)

(***************************************************************************)
(* Properties of the loop of Vm::run over the internal pending operations. *)
(***************************************************************************)
\* The Vm of the step when the child has run and Vm::run has looked at its
\* status, before the loop over the internal pending operations.
BeforeServing(num_instructions, chosen) ==
    after_child_ran([Vm EXCEPT !.children[chosen].fiber =
                                   RanFiber(num_instructions, chosen)], chosen)

\* The status of the fiber that waits for the internal operation.
StatusWaitingFor(operation) ==
    IF operation.t = "Send" THEN Sending(operation.id, operation.message)
    ELSE Receiving(operation.id)

\* No pending Send has room in its channel and no pending Receive has a
\* message in its channel.
NothingLeftToServe ==
    \A j \in 1..Len(internal_pending_operations) :
        LET operation == internal_pending_operations[j]
            channel == channels[operation.id]
        IN IF operation.t = "Send"
           THEN Len(channel.messages) >= channel.capacity
           ELSE channel.messages = <<>>

\* The result that the step has pushed for child c: its stack has grown by
\* one object, which this is.
ResultPushed(before, c) ==
    LET fiber == children'[c].fiber
    IN IF /\ Len(fiber.stack) = Len(before.stack) + 1
          /\ SubSeq(fiber.stack, 1, Len(before.stack)) = before.stack
          /\ Last(fiber.stack).k = "heap"
          /\ fiber.ip = before.ip
       THEN export_helper(fiber, Last(fiber.stack).a).r
       ELSE [t |-> "Nothing"]

\* The messages that the step has taken out of the channel, oldest first.
Dequeued(id) ==
    LET through == channels[id].messages
                   \o SubSeq(accepted'[id], Len(accepted[id]) + 1, Len(accepted'[id]))
    IN SubSeq(through, 1, Len(through) - Len(channels'[id].messages))

\* Each operation served is gone from the internal pending operations and
\* the fiber that waited for it is Running with its result: as many fibers
\* are resumed as operations are gone, the others are left as they were.
ServedAreResumed(vm) ==
    \A operation \in Range(vm.internal_pending_operations) :
        LET waiting == {c \in 1..Len(vm.children) :
                           vm.children[c].fiber.status = StatusWaitingFor(operation)}
            resumed == {c \in waiting : children'[c].fiber.status = Running}
        IN /\ Cardinality(resumed)
                 = Occurrences(vm.internal_pending_operations, operation)
                   - Occurrences(internal_pending_operations', operation)
           /\ \A c \in waiting \ resumed : children'[c].fiber = vm.children[c].fiber
           /\ operation.t = "Send" =>
                 \A c \in resumed : ResultPushed(vm.children[c].fiber, c) = unit
           /\ operation.t = "Receive" =>
                 \A message \in Range(Dequeued(operation.id))
                                \cup {ResultPushed(vm.children[c].fiber, c) :
                                         c \in resumed} :
                    Cardinality({c \in resumed :
                                    ResultPushed(vm.children[c].fiber, c) = message})
                       = Occurrences(Dequeued(operation.id), message)

\* C27: when a call of Vm::run that ran a child returns, no pending Send
\* has room in its channel and no pending Receive has a message in its
\* channel; every operation served in the call is gone from the internal
\* pending operations and its fiber is Running again, with unit for a Send
\* and the message taken out of the channel for a Receive.
C27_RunServesToFixedPoint ==
    [][\A num_instructions \in NumInstructions, chosen \in 1..MaxChildren :
          (IsRunOf(num_instructions, chosen) /\ crash' = "")
          => /\ NothingLeftToServe'
             /\ ServedAreResumed(BeforeServing(num_instructions, chosen))]_vars

\* Calls of Vm::run have served the Send of one child and the Receive of
\* the other: the message went through the channel, nothing is pending, and
\* both fibers are Running behind their primitives, the receiver with the
\* message on its stack.
C27_SendAndReceiveServed ==
    /\ crash = ""
    /\ last_call.op = "run"
    /\ Len(children) = 2
    /\ internal_pending_operations = <<>>
    /\ accepted[0] = <<IntV(3)>>
    /\ delivered[0] = <<IntV(3)>>
    /\ channels[0].messages = <<>>
    /\ \A c \in 1..2 : /\ children[c].fiber.status = Running
                       /\ children[c].fiber.ip = 1
                       /\ Len(children[c].fiber.stack) = 1
    /\ \E c \in 1..2 :
          export_helper(children[c].fiber, Last(children[c].fiber.stack).a).r = IntV(3)

(***************************************************************************)
(* Properties of the ids of the channels of the host.                      *)
(***************************************************************************)
\* The id that the host gave with the ambient of the name.
HostId(name) ==
    LET k == CHOOSE k \in 1..Len(host_ambients) : host_ambients[k][1] = name
    IN host_ambients[k][2].id

\* Each ambient is with the fiber under its name, with an internal id that
\* the Vm maps the id of the host to and whose channel stands for that id.
AmbientsImported ==
    \A k \in 1..Len(host_ambients) :
        LET name == host_ambients[k][1]
            end == host_ambients[k][2]
        IN /\ end.id \in DOMAIN external_to_internal_channel
           /\ channels[external_to_internal_channel[end.id]] = External(end.id)
           /\ \A c \in 1..Len(children) :
                 \E j \in 1..Len(FiberOf(c).ambients) :
                    FiberOf(c).ambients[j]
                       = <<name, [end EXCEPT !.id = external_to_internal_channel[end.id]]>>

DistinctInternalIds ==
    \A e1 \in DOMAIN external_to_internal_channel,
       e2 \in DOMAIN external_to_internal_channel :
        external_to_internal_channel[e1] = external_to_internal_channel[e2] => e1 = e2

\* What pending_operations() shows for a fiber with the status.
SurfacedFor(fiber_status) ==
    IF fiber_status.t = "Sending"
       /\ fiber_status.channel = external_to_internal_channel[HostId(SymStdout)]
    THEN <<Send(HostId(SymStdout), fiber_status.message)>>
    ELSE IF fiber_status.t = "Receiving"
            /\ fiber_status.channel = external_to_internal_channel[HostId(SymStdin)]
    THEN <<Receive(HostId(SymStdin))>>
    ELSE <<>>

\* C28: a Send or Receive of the fiber on the end of an ambient given as
\* ChannelSendEnd(e) or ChannelReceiveEnd(e) is in pending_operations()
\* with the id e; an id of the host maps to one internal id for good and
\* two ids of the host map to two internal ids; an operation on a channel
\* created in the Vm is not in pending_operations().
C28_AmbientOperationsCarryHostId ==
    /\ [](crash = "" => /\ AmbientsImported
                        /\ DistinctInternalIds
                        /\ external_pending_operations
                              = SurfacedFor(FiberOf(1).status))
    /\ [][external_to_internal_channel' = external_to_internal_channel]_vars

\* The fiber waits in a Send on the stdout of the host, which the host gave
\* as the send end of its channel 2 and the Vm imported second, as its
\* channel 1; the channel that the program created is the channel 2 of the
\* Vm.
C28_SendOnHostChannelPending ==
    /\ crash = ""
    /\ HostId(SymStdout) = 2
    /\ HostId(SymStdin) = 5
    /\ external_to_internal_channel[2] = 1
    /\ 2 \in DOMAIN channels
    /\ channels[2].kind = "Internal"
    /\ FiberOf(1).status = Sending(1, IntV(3))
    /\ external_pending_operations = <<Send(2, IntV(3))>>

(***************************************************************************)
(* Properties of the buffers of the internal channels.                     *)
(***************************************************************************)
InternalChannels == {id \in DOMAIN channels : channels[id].kind = "Internal"}

WithinCapacity ==
    \A id \in InternalChannels : Len(channels[id].messages) <= channels[id].capacity

\* The Sends that the step has accepted for the channel.
AcceptedInStep(id) ==
    SubSeq(accepted'[id], Len(accepted[id]) + 1, Len(accepted'[id]))

IsSuffix(s, t) == Len(s) <= Len(t) /\ SubSeq(t, Len(t) - Len(s) + 1, Len(t)) = s

\* What a step adds to a buffer is what was accepted of Sends in the step,
\* at the end; a channel without capacity accepts nothing, and the calls
\* other than Vm::run leave the channels alone.
OnlyAcceptedSendsAdd ==
    \A id \in InternalChannels :
        /\ id \in DOMAIN channels'
        /\ channels'[id].capacity = channels[id].capacity
        /\ IsPrefix(accepted[id], accepted'[id])
        /\ IsSuffix(channels'[id].messages,
                    channels[id].messages \o AcceptedInStep(id))
        /\ AcceptedInStep(id) # <<>> => channels[id].capacity > 0
        /\ last_call'.op # "run" => channels'[id] = channels[id]

\* C29: the buffer of an internal channel never holds more messages than
\* the capacity: a Send is accepted only below the capacity and nothing
\* else adds to a buffer.
C29_BufferWithinCapacity ==
    /\ [](crash = "" => WithinCapacity)
    /\ [][crash' = "" => OnlyAcceptedSendsAdd]_vars

\* The buffer of a channel is full and a Send on the channel is pending.
C29_SendPendingAtFullBuffer ==
    /\ crash = ""
    /\ \E id \in InternalChannels :
          /\ channels[id].capacity > 0
          /\ Len(channels[id].messages) = channels[id].capacity
          /\ \E j \in 1..Len(internal_pending_operations) :
                /\ internal_pending_operations[j].t = "Send"
                /\ internal_pending_operations[j].id = id

(***************************************************************************)
(* Properties of the pending operations and the blocked children.          *)
(***************************************************************************)
BlockedChildren ==
    {c \in 1..Len(children) : FiberOf(c).status.t \in {"Sending", "Receiving"}}

BlockedOnInternal(c) == c \in BlockedChildren /\ ~BlockedOnExternal(c)

\* The operation of a child blocked on a channel of the Vm.
InternalOperationOf(c) ==
    IF FiberOf(c).status.t = "Sending"
    THEN Send(FiberOf(c).status.channel, FiberOf(c).status.message)
    ELSE Receive(FiberOf(c).status.channel)

\* An operation is in a list as often as children are blocked in it, and a
\* blocked child is blocked on a channel that the Vm has.
OneOperationForEachBlockedChild ==
    /\ \A c \in BlockedChildren : FiberOf(c).status.channel \in DOMAIN channels
    /\ \A operation \in Range(external_pending_operations)
                        \cup {OperationOf(c) : c \in {b \in BlockedChildren :
                                                          BlockedOnExternal(b)}} :
          Occurrences(external_pending_operations, operation)
             = Cardinality({c \in BlockedChildren :
                               BlockedOnExternal(c) /\ OperationOf(c) = operation})
    /\ \A operation \in Range(internal_pending_operations)
                        \cup {InternalOperationOf(c) : c \in {b \in BlockedChildren :
                                                                  BlockedOnInternal(b)}} :
          Occurrences(internal_pending_operations, operation)
             = Cardinality({c \in BlockedChildren :
                               BlockedOnInternal(c) /\ InternalOperationOf(c) = operation})

\* C30: between two calls of the host the pending operations and the
\* blocked children correspond one to one: each entry of the two lists
\* belongs to a child of its own that is Sending or Receiving on that
\* channel (with that message) and each such child has one entry, so that
\* no operation is queued twice and no fiber is resumed with its operation
\* left in the list.
C30_PendingOperationsMatchBlockedChildren ==
    crash = "" => OneOperationForEachBlockedChild

\* The host has answered the Receive of the third child, which runs again,
\* while the first two children wait in equal Sends on a channel without
\* capacity, each with an operation of its own.
C30_ResolvedWhileTwoEqualSendsPending ==
    /\ crash = ""
    /\ last_call.op = "resolve_receive"
    /\ Len(children) = 3
    /\ external_pending_operations = <<>>
    /\ Len(internal_pending_operations) = 2
    /\ internal_pending_operations[1] = internal_pending_operations[2]
    /\ FiberOf(1).status.t = "Sending"
    /\ FiberOf(2).status = FiberOf(1).status
    /\ FiberOf(3).status = Running
    /\ Len(FiberOf(3).stack) = 1

====
